---------------------------- MODULE Spec2Model ----------------------------
(***************************************************************************)
(* QRFS: the mount runtime (qrfs_mount/src/fs.rs) over the block device,   *)
(* the allocation bitmap, the format tool and fsck, as a state machine.    *)
(*                                                                         *)
(* Abstractions.  A byte is a natural number.  A file payload is the       *)
(* sequence Payload(tag, len); the root directory's bytes are the bincode  *)
(* image of Vec<DirEntry>, scaled to one number for the length prefix and  *)
(* one number per entry.  AES-GCM is an envelope that carries the key      *)
(* (the passphrase) it was sealed with: decrypt succeeds iff the keys      *)
(* agree.  Timestamps and the always-zero indirect_block are left out.     *)
(* The device is assumed not to fail (no I/O error, no QR decode error).   *)
(***************************************************************************)
EXTENDS Integers, Sequences, FiniteSets, TLC

VARIABLES disk,     \* the medium: block id -> content of qr_{id}.png
          mounted,  \* whether a QRFS value exists (try_mount succeeded)
          crypto,   \* QRFS.crypto: the key derived from the mount passphrase
          sb,       \* QRFS.sb
          bitmap,   \* QRFS.bitmap
          inodes,   \* QRFS.inodes, the HashMap<u64, Inode> cache
          reply,    \* the last call and what it replied
          log,      \* block ids written to the medium by the last call, in order
          calls     \* how many calls have been made since the format

vars == <<disk, mounted, crypto, sb, bitmap, inodes, reply, log, calls>>

---------------------------------------------------------------------------
\* Bounds of the model.

\* mkfs --blocks
TOTAL_BLOCKS == 6
\* types.rs DIRECT_POINTERS (12), scaled
DIRECT_POINTERS == 2
\* fs.rs CHUNK_SIZE (900 bytes), scaled
CHUNK_SIZE == 2
\* the length of the inode vector sync_inode writes (5), scaled
SYNC_INODE_SLOTS == 3
\* create and mkdir are not called once this inode index is in the cache
MaxInodeIdx == 3
\* the file names in use are 1 .. NumNames
NumNames == 2
\* the payload tags in use are 1 .. NumTags
NumTags == 2
\* no call is made after this many
MaxCalls == 4
\* the largest bitmap of the bitmap exerciser
BitmapBits == 4
\* a volume size whose inode-table region is more than one block
BigVolume == 16

\* Program constants.
BLOCK_SIZE == 1024
QRFS_MAGIC == 1364346451
INODE_BYTES == 150
ROOT_INO == 1
MIN_BLOCKS == 5
\* types.rs DIRECT_POINTERS and the CHUNK_SIZE of write_inode_data, unscaled
DIRECT_POINTERS_12 == 12
CHUNK_SIZE_900 == 900
\* crypto.rs: the nonce in front of a ciphertext and the GCM tag behind it
NONCE_LEN == 12
TAG_LEN == 16
\* st_mode values the bridge passes: S_IFREG | 0o644, 0o755, S_IFREG, S_IFDIR
S_IFREG == 2 ^ 15
S_IFDIR == 2 ^ 14
MODE_FILE == S_IFREG + 6 * 64 + 4 * 8 + 4
MODE_DIR == 493
CHMOD_PERM == 6 * 64
U16 == 65536

\* entry names: the empty string, and the names the kernel passes
EmptyName == 0
Names == EmptyName + 1 .. NumNames
Tags == 1 .. NumTags
MaxLen == DIRECT_POINTERS * CHUNK_SIZE + 1
\* payload lengths: empty, one partial chunk, a full chunk and a partial one,
\* every slot full, and one byte more than the slots hold
Lens == {0, 1, CHUNK_SIZE + 1, MaxLen - 1, MaxLen}
Passphrases == {1, 2}
FormatPass == CHOOSE p \in Passphrases : \A q \in Passphrases : p <= q
NoBlock == -1
None == -1

Min(a, b) == IF a < b THEN a ELSE b
Max(a, b) == IF a > b THEN a ELSE b

---------------------------------------------------------------------------
\* types.rs

\* Inode::new(file_type, mode)
InodeNew(file_type, mode) ==
  [mode |-> mode, size |-> 0, file_type |-> file_type,
   direct_blocks |-> [i \in 1 .. DIRECT_POINTERS |-> 0]]

\* `mode as u16`
AsU16(m) == m % U16

---------------------------------------------------------------------------
\* bitmap.rs: a bitmap is [size, bits], bits the set of indices whose bit is 1.

BitmapNew(total_blocks) == [size |-> total_blocks, bits |-> {}]

BitmapGet(bm, index) == index < bm.size /\ index \in bm.bits

BitmapSet(bm, index, value) ==
  IF index >= bm.size THEN bm
  ELSE IF value THEN [bm EXCEPT !.bits = @ \cup {index}]
       ELSE [bm EXCEPT !.bits = @ \ {index}]

\* allocate that hands out the lowest clear index and leaves its bit clear
BitmapAllocateNoSet(bm) ==
  LET free == {i \in 0 .. bm.size - 1 : ~BitmapGet(bm, i)}
  IN IF free = {} THEN [id |-> NoBlock, bitmap |-> bm]
     ELSE [id |-> CHOOSE x \in free : \A y \in free : x <= y, bitmap |-> bm]

\* allocate that hands out the highest clear index
BitmapAllocateHighest(bm) ==
  LET free == {i \in 0 .. bm.size - 1 : ~BitmapGet(bm, i)}
  IN IF free = {} THEN [id |-> NoBlock, bitmap |-> bm]
     ELSE LET i == CHOOSE x \in free : \A y \in free : x >= y
          IN [id |-> i, bitmap |-> BitmapSet(bm, i, TRUE)]

\* Bitmap::allocate: [id, bitmap]; id = NoBlock is None
BitmapAllocate(bm) ==
  LET free == {i \in 0 .. bm.size - 1 : ~BitmapGet(bm, i)}
  IN IF free = {} THEN [id |-> NoBlock, bitmap |-> bm]
     ELSE LET i == CHOOSE x \in free : \A y \in free : x <= y
          IN [id |-> i, bitmap |-> BitmapSet(bm, i, TRUE)]

---------------------------------------------------------------------------
\* device.rs and crypto.rs

\* read_block of an absent file: a zero-filled block
ZeroBlock == [kind |-> "zero"]

\* encrypt(bincode(x)) for the four things the programs store
EncData(key, bytes) == [kind |-> "data", key |-> key, bytes |-> bytes]
EncBitmap(key, bm) == [kind |-> "bitmap", key |-> key, bitmap |-> bm]
EncInodes(key, list) == [kind |-> "inodes", key |-> key, list |-> list]
EncSuper(key, s) == [kind |-> "sb", key |-> key, sb |-> s]

\* decrypt succeeds iff the block is an envelope sealed with this key
DecryptOk(key, blk) == blk.kind # "zero" /\ blk.key = key


---------------------------------------------------------------------------
\* bincode of Vec<DirEntry>: the length prefix, then the entries in order.
\* An entry (inode_idx, name) is the one number inode_idx * 10 + name.

EntryByte(e) == e.inode_idx * 10 + e.name
ByteEntry(b) == [inode_idx |-> b \div 10, name |-> b % 10]

SerializeDir(entries) ==
  <<Len(entries)>> \o [i \in 1 .. Len(entries) |-> EntryByte(entries[i])]

\* bincode::deserialize::<Vec<DirEntry>>: fails when the input ends before the
\* announced entries do; bytes after them are ignored
DeserializeDirOk(data) == Len(data) >= 1 /\ Len(data) - 1 >= data[1]

DeserializeDir(data) == [i \in 1 .. data[1] |-> ByteEntry(data[i + 1])]

\* a file payload: len bytes that carry their tag and their position
Payload(tag, len) == [i \in 1 .. len |-> tag * 10 + i]

---------------------------------------------------------------------------
\* qrfs_mkfs/src/main.rs

MkfsInodeBlocks(total_blocks) == Max(total_blocks \div 8, 1)
MkfsDataStart(total_blocks) == 2 + MkfsInodeBlocks(total_blocks)
InodesPerBlock == Max(BLOCK_SIZE \div INODE_BYTES, 1)

\* a format that leaves the bit of the root directory's block clear
MkfsBitmapSystemOnly(total_blocks) ==
  [size |-> total_blocks,
   bits |-> {i \in 0 .. MkfsDataStart(total_blocks) - 1 : i < total_blocks}]

MkfsBitmap(total_blocks) ==
  [size |-> total_blocks,
   bits |-> {i \in 0 .. MkfsDataStart(total_blocks) : i < total_blocks}]

MkfsRootInode(total_blocks) ==
  [InodeNew("Directory", MODE_DIR) EXCEPT
     !.direct_blocks[1] = MkfsDataStart(total_blocks)]

MkfsSuperBlock(total_blocks) ==
  [magic |-> QRFS_MAGIC,
   total_blocks |-> total_blocks,
   total_inodes |-> MkfsInodeBlocks(total_blocks) * (BLOCK_SIZE \div 128),
   free_blocks_count |-> total_blocks - MkfsDataStart(total_blocks) - 1,
   inode_table_start |-> 2,
   bitmap_start |-> 1,
   root_dir_inode |-> ROOT_INO]

\* the medium after `mkfs --blocks total_blocks` with passphrase pass
Mkfs(total_blocks, pass) ==
  LET table == [i \in 1 .. InodesPerBlock |->
                  IF i - 1 = ROOT_INO THEN MkfsRootInode(total_blocks)
                  ELSE InodeNew("File", 0)]
  IN [b \in 0 .. total_blocks - 1 |->
        IF b = 0 THEN EncSuper(pass, MkfsSuperBlock(total_blocks))
        ELSE IF b = 1 THEN EncBitmap(pass, MkfsBitmap(total_blocks))
        ELSE IF b = 2 THEN EncInodes(pass, table)
        ELSE IF b = MkfsDataStart(total_blocks)
             THEN EncData(pass, SerializeDir(<<>>))
        ELSE ZeroBlock]

---------------------------------------------------------------------------
\* The state a handler works on: the fields of QRFS, the medium, and the
\* writes made to the medium so far in this call (block id and content).

St == [disk |-> disk, crypto |-> crypto, sb |-> sb, bitmap |-> bitmap,
       inodes |-> inodes, log |-> <<>>]

\* BlockDevice::write_block
WriteBlock(st, id, blk) ==
  [st EXCEPT !.disk[id] = blk, !.log = Append(@, [id |-> id, blk |-> blk])]

\* HashMap::insert
Insert(map, k, v) == [x \in DOMAIN map \cup {k} |-> IF x = k THEN v ELSE map[x]]
\* HashMap::remove
Remove(map, k) == [x \in DOMAIN map \ {k} |-> map[x]]

\* sync_bitmap that writes nothing
sync_bitmap_skipped(st) == st

\* a sync_bitmap that also stores the number of clear bits in the superblock
sync_bitmap_counting(st) ==
  WriteBlock(WriteBlock([st EXCEPT !.sb.free_blocks_count =
                                     st.bitmap.size - Cardinality(st.bitmap.bits)],
                        0,
                        EncSuper(st.crypto,
                                 [st.sb EXCEPT !.free_blocks_count =
                                    st.bitmap.size - Cardinality(st.bitmap.bits)])),
             st.sb.bitmap_start, EncBitmap(st.crypto, st.bitmap))

sync_bitmap(st) ==
  WriteBlock(st, st.sb.bitmap_start, EncBitmap(st.crypto, st.bitmap))

\* the vector sync_inode serializes: index i is at position i + 1
SyncInodeList(st, inode_idx, inode) ==
  [p \in 1 .. SYNC_INODE_SLOTS |->
     IF p - 1 = inode_idx THEN inode
     ELSE IF p - 1 \in DOMAIN st.inodes THEN st.inodes[p - 1]
     ELSE InodeNew("File", 0)]

sync_inode(st, inode_idx, inode) ==
  WriteBlock(st, st.sb.inode_table_start,
             EncInodes(st.crypto, SyncInodeList(st, inode_idx, inode)))

---------------------------------------------------------------------------
\* fs.rs: the data path.  A value that a function computes once and uses
\* several times is the parameter of the operator that continues it.

\* BlockDevice::read_block: an absent file reads as a zero-filled block
ReadBlock(st, id) == IF id \in DOMAIN st.disk THEN st.disk[id] ELSE ZeroBlock

\* the plaintext of a data envelope (no inode ever points at a metadata block)
BlockBytes(blk) == IF blk.kind = "data" THEN blk.bytes ELSE <<>>

Truncate(data, size) == IF Len(data) > size THEN SubSeq(data, 1, size) ELSE data

\* one turn of the loop of read_inode_data: blk is the block read, rest what
\* the following turns give
ReadTurn(blk, key, rest) ==
  IF blk.kind = "zero" THEN rest
  ELSE IF ~DecryptOk(key, blk) THEN [err |-> "EIO", data |-> <<>>]
  ELSE IF rest.err # "ok" THEN rest
  ELSE [err |-> "ok", data |-> BlockBytes(blk) \o rest.data]

\* the loop of read_inode_data from slot i on: [err, data]
RECURSIVE ReadLoop(_, _, _)
ReadLoop(st, inode, i) ==
  IF i > DIRECT_POINTERS \/ inode.direct_blocks[i] = 0
  THEN [err |-> "ok", data |-> <<>>]
  ELSE ReadTurn(ReadBlock(st, inode.direct_blocks[i]), st.crypto,
                ReadLoop(st, inode, i + 1))

\* `if data.len() > inode.size { data.truncate(inode.size) }`
ReadResult(r, size) ==
  IF r.err # "ok" THEN r ELSE [err |-> "ok", data |-> Truncate(r.data, size)]

read_inode_data(st, inode) == ReadResult(ReadLoop(st, inode, 1), inode.size)

\* a free loop that starts one slot below the slots the payload took
FreeFromBelow(block_ptr_idx) == block_ptr_idx - 1

\* the first slot the trailing-free loop of write_inode_data looks at
\* (0-based), given the number of slots the payload took
FreeFrom(block_ptr_idx) == block_ptr_idx + 1

WriteStop(st, inode, block_ptr_idx, err) ==
  [st |-> st, inode |-> inode, block_ptr_idx |-> block_ptr_idx, err |-> err]

SetBitmap(st, bm) == [st EXCEPT !.bitmap = bm]

PutInode(st, inode_idx, inode) ==
  [st EXCEPT !.inodes = Insert(@, inode_idx, inode)]

\* the while loop of write_inode_data: [st, inode, block_ptr_idx, err]
RECURSIVE WriteLoop(_, _, _, _, _)
RECURSIVE WriteChunk(_, _, _, _, _, _)

\* the slot is empty: allocate, record the block, persist the bitmap
WriteAlloc(a, st, inode, new_data, written, block_ptr_idx) ==
  IF a.id = NoBlock THEN WriteStop(st, inode, block_ptr_idx, "ENOSPC")
  ELSE WriteChunk(sync_bitmap(SetBitmap(st, a.bitmap)),
                  [inode EXCEPT !.direct_blocks[block_ptr_idx + 1] = a.id],
                  a.id, new_data, written, block_ptr_idx)

\* encrypt the chunk, write it to block_id, go on
WriteChunk(st, inode, block_id, new_data, written, block_ptr_idx) ==
  WriteLoop(WriteBlock(st, block_id,
                       EncData(st.crypto,
                               SubSeq(new_data, written + 1,
                                      Min(written + CHUNK_SIZE, Len(new_data))))),
            inode, new_data, Min(written + CHUNK_SIZE, Len(new_data)),
            block_ptr_idx + 1)

WriteLoop(st, inode, new_data, written, block_ptr_idx) ==
  IF written >= Len(new_data) THEN WriteStop(st, inode, block_ptr_idx, "ok")
  ELSE IF block_ptr_idx >= DIRECT_POINTERS
  THEN WriteStop(st, inode, block_ptr_idx, "ENOSPC")
  ELSE IF inode.direct_blocks[block_ptr_idx + 1] = 0
  THEN WriteAlloc(BitmapAllocate(st.bitmap), st, inode, new_data, written,
                  block_ptr_idx)
  ELSE WriteChunk(st, inode, inode.direct_blocks[block_ptr_idx + 1], new_data,
                  written, block_ptr_idx)

\* a free loop over the slots the payload took
FreedSlotsTaken(inode, block_ptr_idx) ==
  {i \in 1 .. DIRECT_POINTERS : i - 1 < block_ptr_idx - 1 /\ inode.direct_blocks[i] # 0}

\* the trailing-free loop: the slots (1-based) it clears
FreedSlots(inode, block_ptr_idx) ==
  {i \in 1 .. DIRECT_POINTERS :
     i - 1 >= FreeFrom(block_ptr_idx) /\ inode.direct_blocks[i] # 0}

\* a free loop that leaves the bits as they are
ClearBitsNone(bm, blocks) == bm

\* bitmap.set(b, false) for every b of blocks
ClearBits(bm, blocks) ==
  [bm EXCEPT !.bits = {b \in @ : ~(b \in blocks /\ b < bm.size)}]

\* the size update without `inode.direct_blocks[i] = 0`
WriteInodeKeepsFreed(inode, freed, size) == [inode EXCEPT !.size = size]

\* the inode after the trailing-free loop and the size update
WriteInode(inode, freed, size) ==
  [inode EXCEPT
     !.direct_blocks = [i \in 1 .. DIRECT_POINTERS |-> IF i \in freed THEN 0 ELSE @[i]],
     !.size = size]

\* the inode persisted before the bitmap
WriteCommitInodeFirst(st, bm, inode_idx, inode) ==
  [st |-> sync_bitmap(SetBitmap(sync_inode(PutInode(st, inode_idx, inode),
                                           inode_idx, inode),
                                bm)),
   err |-> "ok"]

\* persist the bitmap, update the cache, persist the inode
WriteCommit(st, bm, inode_idx, inode) ==
  [st |-> sync_inode(PutInode(sync_bitmap(SetBitmap(st, bm)), inode_idx, inode),
                     inode_idx, inode),
   err |-> "ok"]

\* after the while loop
WriteFinish(w, inode_idx, size) ==
  IF w.err # "ok" THEN [st |-> w.st, err |-> w.err]
  ELSE WriteCommit(w.st,
         ClearBits(w.st.bitmap,
                   {w.inode.direct_blocks[i] : i \in FreedSlots(w.inode, w.block_ptr_idx)}),
         inode_idx,
         WriteInode(w.inode, FreedSlots(w.inode, w.block_ptr_idx), size))

\* write_inode_data: [st, err]
write_inode_data(st, inode_idx, new_data) ==
  IF inode_idx \notin DOMAIN st.inodes THEN [st |-> st, err |-> "ENOENT"]
  ELSE WriteFinish(WriteLoop(st, st.inodes[inode_idx], new_data, 0, 0),
                   inode_idx, Len(new_data))

\* the end of read_dir_entries, r being what read_inode_data gave
ParseDir(r) ==
  IF r.err # "ok" THEN [err |-> r.err, entries |-> <<>>]
  ELSE IF r.data = <<>> THEN [err |-> "ok", entries |-> <<>>]
  ELSE IF ~DeserializeDirOk(r.data) THEN [err |-> "EIO", entries |-> <<>>]
  ELSE [err |-> "ok", entries |-> DeserializeDir(r.data)]

\* read_dir_entries: [err, entries]
read_dir_entries(st, inode_idx) ==
  IF inode_idx # ROOT_INO THEN [err |-> "ENOTDIR", entries |-> <<>>]
  ELSE IF ROOT_INO \notin DOMAIN st.inodes THEN [err |-> "ENOENT", entries |-> <<>>]
  ELSE ParseDir(read_inode_data(st, st.inodes[ROOT_INO]))

HasName(entries, name) == \E i \in 1 .. Len(entries) : entries[i].name = name

\* iter().position(|e| e.name == name); 0 is None
Position(entries, name) ==
  IF HasName(entries, name)
  THEN CHOOSE i \in 1 .. Len(entries) :
         /\ entries[i].name = name
         /\ \A j \in 1 .. i - 1 : entries[j].name # name
  ELSE 0

\* Vec::remove(pos)
RemoveAt(entries, pos) ==
  [i \in 1 .. Len(entries) - 1 |-> IF i < pos THEN entries[i] ELSE entries[i + 1]]

\* add_dir_entry after read_dir_entries(1) gave d
AddEntry(d, st, name, inode_idx) ==
  IF d.err # "ok" THEN [st |-> st, err |-> d.err]
  ELSE IF HasName(d.entries, name) THEN [st |-> st, err |-> "EIO"]
  ELSE write_inode_data(st, ROOT_INO,
         SerializeDir(Append(d.entries, [inode_idx |-> inode_idx, name |-> name])))

\* add_dir_entry: [st, err]
add_dir_entry(st, name, inode_idx) ==
  AddEntry(read_dir_entries(st, ROOT_INO), st, name, inode_idx)

\* remove_dir_entry after the entry at pos was found
RemoveEntryAt(w, inode_idx) == [st |-> w.st, err |-> w.err, inode_idx |-> inode_idx]

RemoveEntry(d, pos, st) ==
  IF d.err # "ok" THEN [st |-> st, err |-> d.err, inode_idx |-> 0]
  ELSE IF pos = 0 THEN [st |-> st, err |-> "ENOENT", inode_idx |-> 0]
  ELSE RemoveEntryAt(write_inode_data(st, ROOT_INO, SerializeDir(RemoveAt(d.entries, pos))),
                     d.entries[pos].inode_idx)

\* the position the scans of remove_dir_entry, rmdir and rename find
Found(d, name) == IF d.err = "ok" THEN Position(d.entries, name) ELSE 0

RemoveIn(d, st, name) == RemoveEntry(d, Found(d, name), st)

\* remove_dir_entry: [st, err, inode_idx]
remove_dir_entry(st, name) == RemoveIn(read_dir_entries(st, ROOT_INO), st, name)

\* the inode's direct blocks, the unused value 0 among them
BlocksOfAnySlot(inode) == {inode.direct_blocks[i] : i \in 1 .. DIRECT_POINTERS}

\* the inode's non-zero direct blocks
BlocksOf(inode) == {inode.direct_blocks[i] : i \in 1 .. DIRECT_POINTERS} \ {0}

\* the record free_inode_resources persists
FreedInode(inode) ==
  [inode EXCEPT !.mode = 0, !.size = 0,
                !.direct_blocks = [i \in 1 .. DIRECT_POINTERS |-> 0]]

DropInode(st, inode_idx) == [st EXCEPT !.inodes = Remove(@, inode_idx)]

FreeCommit(st, bm, inode_idx, inode) ==
  DropInode(sync_inode(PutInode(sync_bitmap(SetBitmap(st, bm)), inode_idx, inode),
                       inode_idx, inode),
            inode_idx)

\* free_inode_resources (its result is ignored by both callers)
free_inode_resources(st, inode_idx) ==
  IF inode_idx \notin DOMAIN st.inodes THEN st
  ELSE FreeCommit(st, ClearBits(st.bitmap, BlocksOf(st.inodes[inode_idx])),
                  inode_idx, FreedInode(st.inodes[inode_idx]))

---------------------------------------------------------------------------
\* fs.rs: the handlers, as functions of the state: [st, res, ino]

Res(st, res, ino) == [st |-> st, res |-> res, ino |-> ino]

\* `while self.inodes.contains_key(&new_inode_id) { new_inode_id += 1; }`
NewInodeId(map) ==
  CHOOSE n \in 2 .. Cardinality(DOMAIN map) + 2 :
    n \notin DOMAIN map /\ \A m \in 2 .. n - 1 : m \in DOMAIN map

MakeNodeReply(a, new_inode_id) ==
  IF a.err # "ok" THEN Res(a.st, a.err, 0) ELSE Res(a.st, "ok", new_inode_id)

\* insert in the cache, sync_inode, add_dir_entry
MakeNodeAt(st, new_inode_id, new_inode, name) ==
  MakeNodeReply(add_dir_entry(sync_inode(PutInode(st, new_inode_id, new_inode),
                                         new_inode_id, new_inode),
                              name, new_inode_id),
                new_inode_id)

\* a create or mkdir that accepts any parent
MakeNodeAnyParent(st, parent, name, mode, file_type) ==
  MakeNodeAt(st, NewInodeId(st.inodes), InodeNew(file_type, AsU16(mode)), name)

\* create and mkdir differ in the file type only
MakeNode(st, parent, name, mode, file_type) ==
  IF parent # ROOT_INO THEN Res(st, "ENOENT", 0)
  ELSE MakeNodeAt(st, NewInodeId(st.inodes), InodeNew(file_type, AsU16(mode)), name)

create(st, parent, name, mode) == MakeNode(st, parent, name, mode, "File")

mkdir(st, parent, name, mode) == MakeNode(st, parent, name, mode, "Directory")

\* lookup after read_dir_entries gave d: the first entry of that name whose
\* inode is cached
LookupHits(d, map, name) ==
  {i \in 1 .. Len(d.entries) :
     d.entries[i].name = name /\ d.entries[i].inode_idx \in DOMAIN map}

LookupFirst(d, hits) ==
  IF d.err # "ok" THEN [res |-> d.err, ino |-> 0]
  ELSE IF hits = {} THEN [res |-> "ENOENT", ino |-> 0]
  ELSE [res |-> "ok",
        ino |-> d.entries[CHOOSE x \in hits : \A y \in hits : x <= y].inode_idx]

LookupIn(d, map, name) == LookupFirst(d, LookupHits(d, map, name))

\* lookup: [res, ino]
lookup(st, parent, name) ==
  IF parent # ROOT_INO THEN [res |-> "ENOENT", ino |-> 0]
  ELSE LookupIn(read_dir_entries(st, parent), st.inodes, name)

ReadReply(r, offset, size) ==
  IF r.err # "ok" THEN [res |-> r.err, data |-> <<>>]
  ELSE IF offset >= Len(r.data) THEN [res |-> "ok", data |-> <<>>]
  ELSE [res |-> "ok",
        data |-> SubSeq(r.data, offset + 1, Min(offset + size, Len(r.data)))]

\* read: [res, data]
read(st, ino, offset, size) ==
  IF ino \notin DOMAIN st.inodes THEN [res |-> "ENOENT", data |-> <<>>]
  ELSE ReadReply(read_inode_data(st, st.inodes[ino]), offset, size)

WriteReply(w, ino) == Res(w.st, w.err, ino)

\* a write that keeps the first `offset` bytes of the file and puts data after
WriteAtOffset(st, ino, offset, data) ==
  WriteReply(write_inode_data(st, ino,
                              Truncate(read(st, ino, 0, offset).data, offset) \o data),
             ino)

\* write: the offset is not used
write(st, ino, offset, data) == WriteReply(write_inode_data(st, ino, data), ino)

SetattrInode(old, mode, size) ==
  [old EXCEPT !.mode = IF mode # None THEN AsU16(mode) ELSE @,
              !.size = IF size # None THEN size ELSE @]

SetattrCommit(st, ino, inode) ==
  Res(sync_inode(PutInode(st, ino, inode), ino, inode), "ok", ino)

\* setattr: mode and size are None or the new value
setattr(st, ino, mode, size) ==
  IF ino \notin DOMAIN st.inodes THEN Res(st, "ENOENT", ino)
  ELSE SetattrCommit(st, ino, SetattrInode(st.inodes[ino], mode, size))

UnlinkReply(r) ==
  IF r.err # "ok" THEN Res(r.st, r.err, 0)
  ELSE Res(free_inode_resources(r.st, r.inode_idx), "ok", r.inode_idx)

unlink(st, parent, name) ==
  IF parent # ROOT_INO THEN Res(st, "ENOENT", 0)
  ELSE UnlinkReply(remove_dir_entry(st, name))

\* rmdir after its scan found the entry at pos (0: none, or the read failed)
RmdirAt(d, pos, st, name) ==
  IF pos = 0 \/ d.entries[pos].inode_idx = 0 THEN Res(st, "ENOENT", 0)
  ELSE IF /\ d.entries[pos].inode_idx \in DOMAIN st.inodes
          /\ st.inodes[d.entries[pos].inode_idx].file_type # "Directory"
  THEN Res(st, "ENOTDIR", 0)
  ELSE UnlinkReply(remove_dir_entry(st, name))

RmdirIn(d, st, name) == RmdirAt(d, Found(d, name), st, name)

\* rmdir: the scan for the target, the type check, then as unlink
rmdir(st, parent, name) ==
  IF parent # ROOT_INO THEN Res(st, "ENOENT", 0)
  ELSE RmdirIn(read_dir_entries(st, parent), st, name)

\* `entries[pos].name = new_name`
RenameAt(entries, pos, new_name) ==
  [i \in 1 .. Len(entries) |->
     IF i = pos THEN [entries[i] EXCEPT !.name = new_name] ELSE entries[i]]

RenameReply(w, ino) == Res(w.st, w.err, ino)

\* a rename that does not look for the new name among the entries
RenameEntryOnto(d, pos, st, newname) ==
  IF d.err # "ok" THEN Res(st, "EIO", 0)
  ELSE IF pos = 0 THEN Res(st, "ENOENT", 0)
  ELSE RenameReply(write_inode_data(st, ROOT_INO,
                                    SerializeDir(RenameAt(d.entries, pos, newname))),
                   d.entries[pos].inode_idx)

RenameEntry(d, pos, st, newname) ==
  IF d.err # "ok" THEN Res(st, "EIO", 0)
  ELSE IF HasName(d.entries, newname) THEN Res(st, "EIO", 0)
  ELSE IF pos = 0 THEN Res(st, "ENOENT", 0)
  ELSE RenameReply(write_inode_data(st, ROOT_INO,
                                    SerializeDir(RenameAt(d.entries, pos, newname))),
                   d.entries[pos].inode_idx)

RenameIn(d, st, name, newname) == RenameEntry(d, Found(d, name), st, newname)

rename(st, parent, name, newparent, newname) ==
  IF parent # ROOT_INO \/ newparent # ROOT_INO THEN Res(st, "ENOENT", 0)
  ELSE RenameIn(read_dir_entries(st, parent), st, name, newname)

\* the block try_mount reads at id
DeviceBlock(device, id) == IF id \in DOMAIN device THEN device[id] ELSE ZeroBlock

\* a block that opens under every passphrase
OpensAnyKey(password, blk, kind) == blk.kind = kind

\* decrypt and bincode::deserialize into the expected type
Opens(password, blk, kind) == DecryptOk(password, blk) /\ blk.kind = kind

MountFail == [ok |-> FALSE, sb |-> 0, bitmap |-> 0, inodes |-> <<>>]

\* `if inode.mode != 0 { inode_cache.insert(i, inode.clone()) }`
LoadInodes(list) ==
  [i \in {p - 1 : p \in {q \in 1 .. Len(list) : list[q].mode # 0}} |-> list[i + 1]]

MountLoad(password, s, b1, b2) ==
  IF ~Opens(password, b1, "bitmap") THEN MountFail
  ELSE IF ~Opens(password, b2, "inodes") THEN MountFail
  ELSE [ok |-> TRUE, sb |-> s, bitmap |-> b1.bitmap, inodes |-> LoadInodes(b2.list)]

MountSuper(device, password, s) ==
  MountLoad(password, s, DeviceBlock(device, s.bitmap_start),
            DeviceBlock(device, s.inode_table_start))

MountBlock0(device, password, block0) ==
  IF ~Opens(password, block0, "sb") THEN MountFail
  ELSE MountSuper(device, password, block0.sb)

\* try_mount: [ok, sb, bitmap, inodes]
try_mount(device, password) ==
  MountBlock0(device, password, DeviceBlock(device, 0))

---------------------------------------------------------------------------
\* qrfs_fsck/src/main.rs

\* the inodes of the table that fsck takes as live
FsckLive(list) == {q \in 1 .. Len(list) : list[q].mode # 0}

\* direct blocks of live inodes that are >= total_blocks: reported, not used
FsckOutOfRange(s, list) ==
  {b \in UNION {BlocksOf(list[q]) : q \in FsckLive(list)} : b >= s.total_blocks}

\* a calculated set that takes every direct block of a live inode
FsckUsedAnyBlock(s, list) ==
  {0, s.bitmap_start, s.inode_table_start}
  \cup UNION {BlocksOf(list[q]) : q \in FsckLive(list)}

\* calculated_used_blocks
FsckUsed(s, list) ==
  {0, s.bitmap_start, s.inode_table_start}
  \cup {b \in UNION {BlocksOf(list[q]) : q \in FsckLive(list)} : b < s.total_blocks}

\* the comparison of the stored bitmap with the calculated set
FsckCompare(s, stored_bitmap, used, out_of_range) ==
  [opened |-> TRUE,
   exit |-> 0,
   corruption |-> {b \in used : ~BitmapGet(stored_bitmap, b)},
   orphans |-> {i \in 0 .. s.total_blocks - 1 :
                  BitmapGet(stored_bitmap, i) /\ i \notin used},
   out_of_range |-> out_of_range]

\* the run ends before the comparison, with this exit status
FsckAbort(exit) ==
  [opened |-> FALSE, exit |-> exit, corruption |-> {}, orphans |-> {},
   out_of_range |-> {}]

\* `return Ok(())` after the message: bad passphrase or bad magic
FsckFail == FsckAbort(0)

\* an error propagated by `?` out of main
FsckError == FsckAbort(1)

FsckLoad(password, s, b1, b2) ==
  IF s.magic # QRFS_MAGIC THEN FsckFail
  ELSE IF ~Opens(password, b1, "bitmap") \/ ~Opens(password, b2, "inodes") THEN FsckError
  ELSE FsckCompare(s, b1.bitmap, FsckUsed(s, b2.list), FsckOutOfRange(s, b2.list))

FsckSuper(device, password, s) ==
  FsckLoad(password, s, DeviceBlock(device, s.bitmap_start),
           DeviceBlock(device, s.inode_table_start))

FsckBlock0(device, password, block0) ==
  IF ~Opens(password, block0, "sb") THEN FsckFail
  ELSE FsckSuper(device, password, block0.sb)

\* what fsck finds; its `errors` is the number of corruption blocks
fsck(device, password) == FsckBlock0(device, password, DeviceBlock(device, 0))

---------------------------------------------------------------------------
\* The calls the mount bridge makes.  The bridge sends what the kernel lets
\* through: names are non-empty, the parent is the root, data is written to
\* and sizes are set on regular files only, create carries S_IFREG in its
\* mode and chmod the type bits of its target; mkdir carries permission bits
\* only, which may all be zero.

Call(op, arg) == [op |-> op, arg |-> arg]

CreateCalls == {Call("create", <<ROOT_INO, n, MODE_FILE>>) : n \in Names}

MkdirCalls == {Call("mkdir", <<ROOT_INO, n, m>>) : n \in Names, m \in {MODE_DIR, 0}}

RegularInodes == {i \in DOMAIN inodes : inodes[i].file_type = "File"}

WriteCalls ==
  {Call("write", <<i, off, t, l>>) :
     i \in RegularInodes, off \in {0, 1}, t \in Tags, l \in Lens}

ChmodMode(ino) ==
  (IF inodes[ino].file_type = "Directory" THEN S_IFDIR ELSE S_IFREG) + CHMOD_PERM

SetattrCalls ==
  {Call("setattr", <<i, ChmodMode(i), None>>) : i \in DOMAIN inodes}
  \cup {Call("setattr", <<i, None, sz>>) : i \in RegularInodes, sz \in {0, MaxLen}}

UnlinkCalls == {Call("unlink", <<ROOT_INO, n>>) : n \in Names}

RmdirCalls == {Call("rmdir", <<ROOT_INO, n>>) : n \in Names}

RenameCalls ==
  {Call("rename", <<ROOT_INO, n, ROOT_INO, m>>) : n \in Names, m \in Names}

\* the handler a call runs
Handle(st, c) ==
  CASE c.op = "create" -> create(st, c.arg[1], c.arg[2], c.arg[3])
    [] c.op = "mkdir" -> mkdir(st, c.arg[1], c.arg[2], c.arg[3])
    [] c.op = "write" -> write(st, c.arg[1], c.arg[2], Payload(c.arg[3], c.arg[4]))
    [] c.op = "setattr" -> setattr(st, c.arg[1], c.arg[2], c.arg[3])
    [] c.op = "unlink" -> unlink(st, c.arg[1], c.arg[2])
    [] c.op = "rmdir" -> rmdir(st, c.arg[1], c.arg[2])
    [] c.op = "rename" -> rename(st, c.arg[1], c.arg[2], c.arg[3], c.arg[4])

LogIds(l) == [i \in 1 .. Len(l) |-> l[i].id]

\* the state after the call replied r
Replied(c, r) ==
  /\ disk' = r.st.disk
  /\ bitmap' = r.st.bitmap
  /\ inodes' = r.st.inodes
  /\ reply' = [op |-> c.op, arg |-> c.arg, res |-> r.res, ino |-> r.ino]
  /\ log' = LogIds(r.st.log)
  /\ calls' = calls + 1
  /\ UNCHANGED <<mounted, crypto, sb>>

\* the call runs to its reply
Complete(c) == Replied(c, Handle(St, c))

---------------------------------------------------------------------------
\* The state machine

NoSuperBlock ==
  [magic |-> 0, total_blocks |-> 0, total_inodes |-> 0, free_blocks_count |-> 0,
   inode_table_start |-> 0, bitmap_start |-> 0, root_dir_inode |-> 0]

Init ==
  /\ disk = Mkfs(TOTAL_BLOCKS, FormatPass)
  /\ mounted = FALSE
  /\ crypto = 0
  /\ sb = NoSuperBlock
  /\ bitmap = BitmapNew(0)
  /\ inodes = <<>>
  /\ reply = [op |-> "mkfs", arg |-> <<TOTAL_BLOCKS>>, res |-> "ok", ino |-> 0]
  /\ log = <<>>
  /\ calls = 0

\* the state after try_mount returned m
Mounted(password, m) ==
  /\ mounted' = m.ok
  /\ crypto' = IF m.ok THEN password ELSE 0
  /\ sb' = IF m.ok THEN m.sb ELSE NoSuperBlock
  /\ bitmap' = IF m.ok THEN m.bitmap ELSE BitmapNew(0)
  /\ inodes' = m.inodes
  /\ reply' = [op |-> "mount", arg |-> <<password>>,
               res |-> IF m.ok THEN "ok" ELSE "fail", ino |-> 0]
  /\ log' = <<>>
  /\ calls' = calls + 1
  /\ UNCHANGED disk

Mount ==
  /\ ~mounted
  /\ calls < MaxCalls
  /\ \E password \in Passphrases :
       Mounted(password, try_mount(disk, password))

\* the QRFS value is dropped; nothing is written
Unmount ==
  /\ mounted
  /\ calls < MaxCalls
  /\ mounted' = FALSE
  /\ crypto' = 0
  /\ sb' = NoSuperBlock
  /\ bitmap' = BitmapNew(0)
  /\ inodes' = <<>>
  /\ reply' = [op |-> "unmount", arg |-> <<>>, res |-> "ok", ino |-> 0]
  /\ log' = <<>>
  /\ calls' = calls + 1
  /\ UNCHANGED disk

\* the bridge is serving calls
Serving == mounted /\ calls < MaxCalls

Create ==
  /\ Serving
  /\ NewInodeId(inodes) <= MaxInodeIdx
  /\ \E c \in CreateCalls : Complete(c)

Mkdir ==
  /\ Serving
  /\ NewInodeId(inodes) <= MaxInodeIdx
  /\ \E c \in MkdirCalls : Complete(c)

Write == Serving /\ \E c \in WriteCalls : Complete(c)

Setattr == Serving /\ \E c \in SetattrCalls : Complete(c)

Unlink == Serving /\ \E c \in UnlinkCalls : Complete(c)

Rmdir == Serving /\ \E c \in RmdirCalls : Complete(c)

Rename == Serving /\ \E c \in RenameCalls : Complete(c)

\* every call the bridge can make in this state
AllCalls ==
  (IF NewInodeId(inodes) <= MaxInodeIdx THEN CreateCalls \cup MkdirCalls ELSE {})
  \cup WriteCalls \cup SetattrCalls \cup UnlinkCalls \cup RmdirCalls \cup RenameCalls

\* the medium after the first k writes of a call's log
Replay(device, l, k) ==
  [b \in DOMAIN device |->
     IF \E i \in 1 .. k : l[i].id = b
     THEN l[CHOOSE i \in 1 .. k : l[i].id = b /\ \A j \in i + 1 .. k : l[j].id # b].blk
     ELSE device[b]]

\* the process dies after the k-th medium write of the call
CrashedAt(c, l, k) ==
  /\ disk' = Replay(disk, l, k)
  /\ mounted' = FALSE
  /\ crypto' = 0
  /\ sb' = NoSuperBlock
  /\ bitmap' = BitmapNew(0)
  /\ inodes' = <<>>
  /\ reply' = [op |-> "crash", arg |-> <<k>> \o c.arg, res |-> c.op, ino |-> 0]
  /\ log' = LogIds(SubSeq(l, 1, k))
  /\ calls' = calls + 1

CrashedIn(c, l) == \E k \in 1 .. Len(l) - 1 : CrashedAt(c, l, k)

\* a crash between two medium writes of a call
Crash == Serving /\ \E c \in AllCalls : CrashedIn(c, Handle(St, c).st.log)

Next ==
  \/ Mount
  \/ Unmount
  \/ Create
  \/ Mkdir
  \/ Write
  \/ Setattr
  \/ Unlink
  \/ Rmdir
  \/ Rename

Spec == Init /\ [][Next]_vars

\* the same with crashes
CrashNext == Next \/ Crash

CrashSpec == Init /\ [][CrashNext]_vars

\* only mounts, unmounts, creates and writes
FilesNext ==
  \/ Mount
  \/ Unmount
  \/ Create
  \/ Write

FilesSpec == Init /\ [][FilesNext]_vars

---------------------------------------------------------------------------
\* The tools that run on an unmounted directory: mkfs, fsck, resize

\* what a tool run leaves: exit status, medium, block ids written in order
ToolDone(exit, device, l) == [exit |-> exit, disk |-> device, log |-> l]

\* the blocks the formatter writes
MkfsWritten(total_blocks) == {0, 1, 2, MkfsDataStart(total_blocks)}

\* mkfs --blocks total_blocks on a directory that holds device
mkfs(device, total_blocks, pass) ==
  IF total_blocks < MIN_BLOCKS THEN ToolDone(1, device, <<>>)
  ELSE ToolDone(0,
         [b \in DOMAIN device |->
            IF b \in MkfsWritten(total_blocks) THEN Mkfs(total_blocks, pass)[b]
            ELSE device[b]],
         <<0, 0, 1, 2, MkfsDataStart(total_blocks)>>)

\* Bitmap::resize is not in bitmap.rs; from the specification: grow extends
\* with zero bits, shrink fails if any bit of the shrunk-off tail is set
BitmapResize(bm, new_size) ==
  IF \E i \in bm.bits : i >= new_size THEN [ok |-> FALSE, bitmap |-> bm]
  ELSE [ok |-> TRUE, bitmap |-> [bm EXCEPT !.size = new_size]]

\* a trim that also removes the file of the block below start_block
TrimOneBelow(device, start_block, end_block) ==
  [b \in DOMAIN device |->
     IF start_block - 1 <= b /\ b < end_block THEN ZeroBlock ELSE device[b]]

\* BlockDevice::trim: the files of [start_block, end_block) are removed
Trim(device, start_block, end_block) ==
  [b \in DOMAIN device |->
     IF start_block <= b /\ b < end_block THEN ZeroBlock ELSE device[b]]

\* the superblock resize writes
ResizedSuper(s, new_size) ==
  [s EXCEPT !.total_blocks = new_size,
            !.free_blocks_count = @ + new_size - s.total_blocks]

\* `new_bitmap_bytes.len() > BLOCK_SIZE - 28` does not hold
BitmapFits(bm) == 8 + (bm.size + 7) \div 8 + 8 <= BLOCK_SIZE - 28

\* resize after the trim left `trimmed`: the size check, then the two writes
ResizeWrite(trimmed, password, s, bm, new_size) ==
  IF ~BitmapFits(bm) THEN ToolDone(1, trimmed, <<>>)
  ELSE ToolDone(0,
         [trimmed EXCEPT ![s.bitmap_start] = EncBitmap(password, bm),
                         ![0] = EncSuper(password, ResizedSuper(s, new_size))],
         <<s.bitmap_start, 0>>)

\* resize after the bitmap was resized in memory
ResizeSave(device, password, s, bm, new_size) ==
  ResizeWrite(IF new_size < s.total_blocks
              THEN Trim(device, new_size, s.total_blocks) ELSE device,
              password, s, bm, new_size)

\* a resize that saves although Bitmap::resize refused
ResizeBitmapIgnoresErr(device, password, s, r, new_size) ==
  ResizeSave(device, password, s, [r.bitmap EXCEPT !.size = new_size], new_size)

\* `match bitmap.resize(new_size)`: r is what it returned
ResizeBitmap(device, password, s, r, new_size) ==
  IF ~r.ok THEN ToolDone(0, device, <<>>)
  ELSE ResizeSave(device, password, s, r.bitmap, new_size)

ResizeLoad(device, password, s, b1, new_size) ==
  IF s.magic # QRFS_MAGIC THEN ToolDone(1, device, <<>>)
  ELSE IF new_size = s.total_blocks THEN ToolDone(0, device, <<>>)
  ELSE IF ~Opens(password, b1, "bitmap") THEN ToolDone(1, device, <<>>)
  ELSE ResizeBitmap(device, password, s, BitmapResize(b1.bitmap, new_size), new_size)

ResizeBlock0(device, password, block0, new_size) ==
  IF ~Opens(password, block0, "sb") THEN ToolDone(1, device, <<>>)
  ELSE ResizeLoad(device, password, block0.sb,
                  DeviceBlock(device, block0.sb.bitmap_start), new_size)

\* qrfs_resize: [exit, disk, log]
resize(device, password, new_size) ==
  ResizeBlock0(device, password, DeviceBlock(device, 0), new_size)


\* block ids of the directory the tools are pointed at
DeviceIds == 0 .. BigVolume

\* an empty directory: no block file exists
EmptyDevice == [b \in DeviceIds |-> ZeroBlock]

\* a directory whose superblock is sealed with the passphrase but carries
\* another magic
ForeignVolume ==
  [mkfs(EmptyDevice, TOTAL_BLOCKS, FormatPass).disk EXCEPT
     ![0] = EncSuper(FormatPass, [MkfsSuperBlock(TOTAL_BLOCKS) EXCEPT !.magic = 0])]

\* the file system try_mount hands to the bridge
Served(device, password, m) ==
  [disk |-> device, crypto |-> password, sb |-> m.sb, bitmap |-> m.bitmap,
   inodes |-> m.inodes, log |-> <<>>]

\* the medium after one chunk is written to the file a create replied r for
WrittenTo(r) ==
  Handle(r.st, Call("write", <<r.ino, 0, 1, CHUNK_SIZE>>)).st.disk

\* a volume that was formatted, mounted, given one file of one block and
\* unmounted
FileVolume ==
  WrittenTo(Handle(Served(mkfs(EmptyDevice, TOTAL_BLOCKS, FormatPass).disk, FormatPass,
                          try_mount(mkfs(EmptyDevice, TOTAL_BLOCKS, FormatPass).disk,
                                    FormatPass)),
                   Call("create", <<ROOT_INO, 1, MODE_FILE>>)))

FormatSizes == {MIN_BLOCKS - 1, MIN_BLOCKS, TOTAL_BLOCKS, BigVolume}

ResizeSizes == {MkfsDataStart(TOTAL_BLOCKS), MIN_BLOCKS - 1, TOTAL_BLOCKS - 1,
                TOTAL_BLOCKS, TOTAL_BLOCKS + 1}

\* the state after a tool run that left t
ToolRan(op, arg, t) ==
  /\ disk' = t.disk
  /\ reply' = [op |-> op, arg |-> arg,
               res |-> IF t.exit = 0 THEN "exit0" ELSE "exit1", ino |-> 0]
  /\ log' = t.log
  /\ calls' = calls + 1
  /\ UNCHANGED <<mounted, crypto, sb, bitmap, inodes>>

\* no bridge holds the directory
Idle == ~mounted /\ calls < MaxCalls

Format ==
  Idle /\ \E n \in FormatSizes, pass \in Passphrases :
    ToolRan("mkfs", <<n, pass>>, mkfs(disk, n, pass))

Resize ==
  Idle /\ \E n \in ResizeSizes, pass \in Passphrases :
    ToolRan("resize", <<n, pass>>, resize(disk, pass, n))

\* a check that repairs: it stores the bitmap of the calculated set
FsckRunRepairs(device, password) ==
  IF fsck(device, password).opened
  THEN ToolDone(0,
                [device EXCEPT ![DeviceBlock(device, 0).sb.bitmap_start].bitmap.bits =
                   @ \ fsck(device, password).orphans],
                <<DeviceBlock(device, 0).sb.bitmap_start>>)
  ELSE ToolDone(fsck(device, password).exit, device, <<>>)

\* a run of qrfs_fsck: main calls read_block only, never write_block or trim
FsckRun(device, password) == ToolDone(fsck(device, password).exit, device, <<>>)

Fsck ==
  Idle /\ \E pass \in Passphrases : ToolRan("fsck", <<pass>>, FsckRun(disk, pass))

ToolsInit ==
  /\ disk \in {EmptyDevice, ForeignVolume, FileVolume,
               mkfs(EmptyDevice, TOTAL_BLOCKS, FormatPass).disk}
  /\ mounted = FALSE
  /\ crypto = 0
  /\ sb = NoSuperBlock
  /\ bitmap = BitmapNew(0)
  /\ inodes = <<>>
  /\ reply = [op |-> "none", arg |-> <<>>, res |-> "ok", ino |-> 0]
  /\ log = <<>>
  /\ calls = 0

ToolsNext ==
  \/ Format
  \/ Resize
  \/ Fsck
  \/ Mount
  \/ Unmount
  \/ Create
  \/ Write
  \/ Unlink

ToolsSpec == ToolsInit /\ [][ToolsNext]_vars

\* a volume that was formatted, mounted, given one file of two blocks and
\* unmounted
TwoBlockVolume ==
  Handle(Handle(Served(mkfs(EmptyDevice, TOTAL_BLOCKS, FormatPass).disk, FormatPass,
                       try_mount(mkfs(EmptyDevice, TOTAL_BLOCKS, FormatPass).disk,
                                 FormatPass)),
                Call("create", <<ROOT_INO, 1, MODE_FILE>>)).st,
         Call("write", <<ROOT_INO + 1, 0, 1, CHUNK_SIZE + 1>>)).st.disk

CheckInit ==
  /\ disk \in {FileVolume, TwoBlockVolume}
  /\ mounted = FALSE
  /\ crypto = 0
  /\ sb = NoSuperBlock
  /\ bitmap = BitmapNew(0)
  /\ inodes = <<>>
  /\ reply = [op |-> "none", arg |-> <<>>, res |-> "ok", ino |-> 0]
  /\ log = <<>>
  /\ calls = 0

\* the check and the resizer on a volume that a bridge served and where a
\* bridge may be killed between two medium writes of a call
CheckNext ==
  \/ Resize
  \/ Fsck
  \/ Mount
  \/ Unmount
  \/ Write
  \/ Unlink
  \/ Crash

CheckSpec == CheckInit /\ [][CheckNext]_vars

---------------------------------------------------------------------------
\* calls that name another parent than the root: inode 0, or an inode number
\* that a file or a directory of the root may have

OtherParents == (0 .. MaxInodeIdx) \ {ROOT_INO}

ElsewhereCalls ==
  {Call("create", <<p, n, MODE_FILE>>) : p \in OtherParents, n \in Names}
  \cup {Call("mkdir", <<p, n, MODE_DIR>>) : p \in OtherParents, n \in Names}
  \cup {Call(op, <<p, n>>) : op \in {"unlink", "rmdir"}, p \in OtherParents, n \in Names}
  \cup {Call("rename", <<p, n, q, m>>) :
          p \in OtherParents, n \in Names, q \in OtherParents \cup {ROOT_INO}, m \in Names}
  \cup {Call("rename", <<ROOT_INO, n, q, m>>) : n \in Names, q \in OtherParents, m \in Names}

Elsewhere == Serving /\ \E c \in ElsewhereCalls : Complete(c)

\* the state after lookup replied l: nothing but the reply has changed
LookedUp(parent, name, l) ==
  /\ reply' = [op |-> "lookup", arg |-> <<parent, name>>, res |-> l.res, ino |-> l.ino]
  /\ log' = <<>>
  /\ calls' = calls + 1
  /\ UNCHANGED <<disk, mounted, crypto, sb, bitmap, inodes>>

Lookup ==
  Serving /\ \E parent \in OtherParents \cup {ROOT_INO}, name \in Names :
    LookedUp(parent, name, lookup(St, parent, name))

DirsNext ==
  \/ Mount
  \/ Create
  \/ Mkdir
  \/ Lookup
  \/ Elsewhere

DirsSpec == Init /\ [][DirsNext]_vars

---------------------------------------------------------------------------
\* bitmap.rs on its own: a Bitmap::new of any size, then allocate and set
\* in any order (as in test_bitmap_allocation)

BitmapInit ==
  /\ bitmap \in {BitmapNew(n) : n \in 0 .. BitmapBits}
  /\ disk = EmptyDevice
  /\ mounted = FALSE
  /\ crypto = 0
  /\ sb = NoSuperBlock
  /\ inodes = <<>>
  /\ reply = [op |-> "new", arg |-> <<>>, res |-> "ok", ino |-> 0]
  /\ log = <<>>
  /\ calls = 0

\* the state after a bitmap call that returned ino and left bm
BitmapCalled(op, arg, ino, bm) ==
  /\ bitmap' = bm
  /\ reply' = [op |-> op, arg |-> arg, res |-> "ok", ino |-> ino]
  /\ UNCHANGED <<disk, mounted, crypto, sb, inodes, log, calls>>

Allocated(a) == BitmapCalled("allocate", <<>>, a.id, a.bitmap)

Allocate == ~mounted /\ Allocated(BitmapAllocate(bitmap))

SetBit ==
  ~mounted /\ \E index \in 0 .. BitmapBits, value \in BOOLEAN :
    BitmapCalled("set", <<index, value>>, 0, BitmapSet(bitmap, index, value))

BitmapNext == Allocate \/ SetBit

BitmapSpec == BitmapInit /\ [][BitmapNext]_vars

---------------------------------------------------------------------------
\* write_inode_data with the constants of the source, on the lengths alone:
\* a payload of len bytes written to an inode whose slots are `slots`, with
\* the bitmap bm.  What the chunks hold plays no part in which blocks the
\* loop takes and where it stops.

SizedDone(err, bm, slots) == [err |-> err, bitmap |-> bm, slots |-> slots]

\* a loop that stops one slot early
RECURSIVE SizedWriteShort(_, _, _, _, _)
SizedWriteShort(bm, slots, len, written, block_ptr_idx) ==
  IF written >= len THEN SizedDone("ok", bm, slots)
  ELSE IF block_ptr_idx + 1 >= DIRECT_POINTERS_12 THEN SizedDone("ENOSPC", bm, slots)
  ELSE IF slots[block_ptr_idx + 1] # 0
       THEN SizedWriteShort(bm, slots, len, Min(written + CHUNK_SIZE_900, len),
                            block_ptr_idx + 1)
  ELSE IF BitmapAllocate(bm).id = NoBlock THEN SizedDone("ENOSPC", bm, slots)
  ELSE SizedWriteShort(BitmapAllocate(bm).bitmap,
                       [slots EXCEPT ![block_ptr_idx + 1] = BitmapAllocate(bm).id],
                       len, Min(written + CHUNK_SIZE_900, len), block_ptr_idx + 1)

\* the `while written < new_data.len()` loop
RECURSIVE SizedWrite(_, _, _, _, _)
SizedWrite(bm, slots, len, written, block_ptr_idx) ==
  IF written >= len THEN SizedDone("ok", bm, slots)
  ELSE IF block_ptr_idx >= DIRECT_POINTERS_12 THEN SizedDone("ENOSPC", bm, slots)
  ELSE IF slots[block_ptr_idx + 1] # 0
       THEN SizedWrite(bm, slots, len, Min(written + CHUNK_SIZE_900, len),
                       block_ptr_idx + 1)
  ELSE IF BitmapAllocate(bm).id = NoBlock THEN SizedDone("ENOSPC", bm, slots)
  ELSE SizedWrite(BitmapAllocate(bm).bitmap,
                  [slots EXCEPT ![block_ptr_idx + 1] = BitmapAllocate(bm).id],
                  len, Min(written + CHUNK_SIZE_900, len), block_ptr_idx + 1)

\* Inode::new: every slot 0
NewSlots == [i \in 1 .. DIRECT_POINTERS_12 |-> 0]

\* the first write to a file just created on a volume just formatted to
\* total_blocks: the create took no block (the root directory has its own)
FirstWrite(total_blocks, len) ==
  SizedWrite(MkfsBitmap(total_blocks), NewSlots, len, 0, 0)

\* volume sizes from the smallest to one that holds more than twelve blocks
\* of data
VolumeSizes == MIN_BLOCKS .. 2 * DIRECT_POINTERS_12

\* payload sizes around one chunk, 4 KiB, 8 KiB and the twelve chunks
PayloadSizes ==
  {0, 1, CHUNK_SIZE_900, CHUNK_SIZE_900 + 1, 4096, 8192,
   DIRECT_POINTERS_12 * CHUNK_SIZE_900, DIRECT_POINTERS_12 * CHUNK_SIZE_900 + 1}

\* the blocks the slots name
SlotBlocks(slots) == {slots[i] : i \in DOMAIN slots} \ {0}

SizedInit ==
  /\ disk = EmptyDevice
  /\ mounted = FALSE
  /\ crypto = 0
  /\ sb = NoSuperBlock
  /\ bitmap = BitmapNew(0)
  /\ inodes = <<>>
  /\ reply = [op |-> "none", arg |-> <<>>, res |-> "ok", ino |-> 0]
  /\ log = <<>>
  /\ calls = 0

\* the reply of the write and the number of blocks the loop had taken
SizedWritten(total_blocks, len, w) ==
  /\ reply' = [op |-> "write", arg |-> <<total_blocks, len>>, res |-> w.err,
               ino |-> Cardinality(SlotBlocks(w.slots))]
  /\ bitmap' = w.bitmap
  /\ UNCHANGED <<disk, mounted, crypto, sb, inodes, log, calls>>

FormatCreateWrite ==
  ~mounted /\ \E total_blocks \in VolumeSizes, len \in PayloadSizes :
    SizedWritten(total_blocks, len, FirstWrite(total_blocks, len))

SizedNext == FormatCreateWrite

SizedSpec == SizedInit /\ [][SizedNext]_vars

---------------------------------------------------------------------------
\* device.rs at the level of bytes: a block file holds the QR code of the
\* Base64 text of the bytes written.  A Base64 text is a sequence over
\* 0 .. 63 and the padding sign.

PadSign == 2 ^ 6

ByteAt(data, i) == IF i <= Len(data) THEN data[i] ELSE 0

\* the 24 bits of the j-th group of three bytes (j from 0)
GroupValue(data, j) ==
  ByteAt(data, 3 * j + 1) * 65536 + ByteAt(data, 3 * j + 2) * 256
  + ByteAt(data, 3 * j + 3)

\* an encoder that leaves the padding out
Base64EncodeUnpadded(data) ==
  [k \in 1 .. (4 * Len(data) + 2) \div 3 |->
     (GroupValue(data, (k - 1) \div 4) \div (64 ^ (3 - ((k - 1) % 4)))) % 64]

\* general_purpose::STANDARD.encode
Base64Encode(data) ==
  [k \in 1 .. 4 * ((Len(data) + 2) \div 3) |->
     IF (k - 1) % 4 > Min(3, Len(data) - 3 * ((k - 1) \div 4)) THEN PadSign
     ELSE (GroupValue(data, (k - 1) \div 4) \div (64 ^ (3 - ((k - 1) % 4)))) % 64]

PadCount(text) == Cardinality({k \in DOMAIN text : text[k] = PadSign})

\* general_purpose::STANDARD.decode accepts: whole groups of four, at most
\* two padding signs, at the end
Base64DecodeOk(text) ==
  /\ Len(text) % 4 = 0
  /\ PadCount(text) <= 2
  /\ \A k \in DOMAIN text : text[k] = PadSign => k > Len(text) - PadCount(text)

SignValue(c) == IF c = PadSign THEN 0 ELSE c

\* the 24 bits of the j-th group of four signs (j from 0)
QuadValue(text, j) ==
  SignValue(text[4 * j + 1]) * 262144 + SignValue(text[4 * j + 2]) * 4096
  + SignValue(text[4 * j + 3]) * 64 + SignValue(text[4 * j + 4])

Base64Decode(text) ==
  [i \in 1 .. 3 * (Len(text) \div 4) - PadCount(text) |->
     (QuadValue(text, (i - 1) \div 3) \div (256 ^ (2 - ((i - 1) % 3)))) % 256]

\* the image saved for a text, and what detect_grids and decode read from it
QrImage(text) == [kind |-> "png", qr |-> text]

\* BlockDevice::write_block: [err, disk]
write_block(device, block_id, data) ==
  IF Len(data) > BLOCK_SIZE THEN [err |-> "DataTooLarge", disk |-> device]
  ELSE [err |-> "ok",
        disk |-> [device EXCEPT ![block_id] = QrImage(Base64Encode(data))]]

\* vec![0u8; BLOCK_SIZE]
ZeroBytes == [i \in 1 .. BLOCK_SIZE |-> 0]

\* a read that takes a missing file for an error
read_block_needs_file(device, block_id) ==
  IF device[block_id] = ZeroBlock THEN [err |-> "Io", data |-> <<>>]
  ELSE IF ~Base64DecodeOk(device[block_id].qr) THEN [err |-> "Base64Error", data |-> <<>>]
  ELSE [err |-> "ok", data |-> Base64Decode(device[block_id].qr)]

\* BlockDevice::read_block: [err, data]
read_block(device, block_id) ==
  IF device[block_id] = ZeroBlock THEN [err |-> "ok", data |-> ZeroBytes]
  ELSE IF ~Base64DecodeOk(device[block_id].qr) THEN [err |-> "Base64Error", data |-> <<>>]
  ELSE [err |-> "ok", data |-> Base64Decode(device[block_id].qr)]

\* two block ids, and payloads of up to three bytes, of a whole block, and
\* of one byte more than a block
PngIds == {0, 1}

ShortPayloads == {<<>>, <<0>>, <<0, 255>>, <<255, 0, 254>>}

DevicePayloads ==
  ShortPayloads \cup {ZeroBytes, [i \in 1 .. BLOCK_SIZE + 1 |-> 255]}

\* In this specification log records, for each block id, whether its file
\* was never written, was removed by trim, or was written, and then the
\* last payload that write_block stored in it.
DeviceInit ==
  /\ disk = [b \in PngIds |-> ZeroBlock]
  /\ log = [b \in PngIds |-> [file |-> "never", data |-> <<>>]]
  /\ mounted = FALSE
  /\ crypto = 0
  /\ sb = NoSuperBlock
  /\ bitmap = BitmapNew(0)
  /\ inodes = <<>>
  /\ reply = [op |-> "none", arg |-> <<>>, res |-> "ok", ino |-> 0]
  /\ calls = 0

DeviceFrame == UNCHANGED <<mounted, crypto, sb, bitmap, inodes, calls>>

BlockWritten(block_id, data, w) ==
  /\ disk' = w.disk
  /\ log' = IF w.err = "ok"
             THEN [log EXCEPT ![block_id] = [file |-> "written", data |-> data]]
             ELSE log
  /\ reply' = [op |-> "write_block", arg |-> <<block_id, Len(data)>>, res |-> w.err,
               ino |-> 0]
  /\ DeviceFrame

WriteABlock ==
  ~mounted /\ \E block_id \in PngIds, data \in DevicePayloads :
    BlockWritten(block_id, data, write_block(disk, block_id, data))

BlockRead(block_id, r) ==
  /\ reply' = [op |-> "read_block", arg |-> <<block_id, r.data>>, res |-> r.err,
               ino |-> 0]
  /\ UNCHANGED <<disk, log>>
  /\ DeviceFrame

ReadABlock ==
  ~mounted /\ \E block_id \in PngIds : BlockRead(block_id, read_block(disk, block_id))

Trimmed(start_block, end_block) ==
  /\ disk' = Trim(disk, start_block, end_block)
  /\ log' = [b \in PngIds |->
               IF start_block <= b /\ b < end_block /\ log[b].file # "never"
               THEN [file |-> "trimmed", data |-> <<>>] ELSE log[b]]
  /\ reply' = [op |-> "trim", arg |-> <<start_block, end_block>>, res |-> "ok",
               ino |-> 0]
  /\ DeviceFrame

TrimBlocks ==
  ~mounted /\ \E start_block \in PngIds, end_block \in PngIds \cup {2} :
    Trimmed(start_block, end_block)

DeviceNext == WriteABlock \/ ReadABlock \/ TrimBlocks

DeviceSpec == DeviceInit /\ [][DeviceNext]_vars

---------------------------------------------------------------------------
\* crypto.rs at the level of bytes.  An element of a ciphertext is a record:
\* [b] for a byte of the nonce or of the encrypted text, [mac, i] for the
\* i-th byte of the tag, which stands for the GCM tag computed under key for
\* that nonce and that encrypted text: another key, nonce or text has
\* another tag.  The key is PBKDF2 of the passphrase and the salt; with one
\* salt it is the passphrase.

Wrap(bytes) == [i \in 1 .. Len(bytes) |-> [b |-> bytes[i]]]

KeyStream(key, nonce, i) == (31 * key + nonce[1].b + i) % 256

Tag(key, nonce, body) ==
  [i \in 1 .. TAG_LEN |-> [mac |-> [key |-> key, nonce |-> nonce, body |-> body], i |-> i]]

\* cipher.encrypt(nonce, data) without the nonce: the text and the tag
Sealed(key, nonce, body) == body \o Tag(key, nonce, body)

\* CryptoEngine::encrypt with the nonce thread_rng gave
encrypt(key, nonce, data) ==
  nonce \o Sealed(key, nonce,
                  [i \in 1 .. Len(data) |-> [b |-> (data[i] + KeyStream(key, nonce, i)) % 256]])

DecryptionError == [err |-> "DecryptionError", data |-> <<>>]

\* cipher.decrypt(nonce, ciphertext) once the tag has been verified
Opened(key, nonce, body) ==
  [err |-> "ok",
   data |-> [i \in 1 .. Len(body) |-> (body[i].b + 256 - KeyStream(key, nonce, i)) % 256]]

\* cipher.decrypt(nonce, ciphertext)
Unseal(key, nonce, ciphertext) ==
  IF Len(ciphertext) < TAG_LEN THEN DecryptionError
  ELSE IF SubSeq(ciphertext, Len(ciphertext) - TAG_LEN + 1, Len(ciphertext))
          # Tag(key, nonce, SubSeq(ciphertext, 1, Len(ciphertext) - TAG_LEN))
       THEN DecryptionError
  ELSE Opened(key, nonce, SubSeq(ciphertext, 1, Len(ciphertext) - TAG_LEN))

\* a decrypt that returns the text whatever the tag is
decrypt_unverified(key, data) ==
  IF Len(data) < NONCE_LEN + TAG_LEN THEN [err |-> "ok", data |-> <<>>]
  ELSE Opened(key, SubSeq(data, 1, NONCE_LEN),
              [i \in 1 .. Len(data) - NONCE_LEN - TAG_LEN |->
                 [b |-> IF "b" \in DOMAIN data[NONCE_LEN + i] THEN data[NONCE_LEN + i].b ELSE 0]])

\* CryptoEngine::decrypt: [err, data]
decrypt(key, data) ==
  IF Len(data) < NONCE_LEN THEN DecryptionError
  ELSE Unseal(key, SubSeq(data, 1, NONCE_LEN), SubSeq(data, NONCE_LEN + 1, Len(data)))

\* two of the nonces thread_rng can give
Nonces == {Wrap([i \in 1 .. NONCE_LEN |-> 0]), Wrap([i \in 1 .. NONCE_LEN |-> i])}

Plaintexts == {<<>>, <<0>>, <<7, 255>>}

\* data with its k-th byte replaced by another one
Changed(data, k) == [data EXCEPT ![k] = [changed |-> data[k]]]

\* what can be handed to decrypt when buf is held: buf, buf with one byte
\* changed, and the beginnings of buf that are shorter than a nonce
Handed(buf) ==
  {[how |-> "whole", k |-> 0, data |-> buf]}
  \cup {[how |-> "changed", k |-> k, data |-> Changed(buf, k)] : k \in 1 .. Len(buf)}
  \cup {[how |-> "cut", k |-> k, data |-> SubSeq(buf, 1, k)] :
          k \in 0 .. Min(Len(buf), NONCE_LEN - 1)}

\* In this specification crypto is the passphrase of the engine that made
\* the ciphertext held in log.
CryptoInit ==
  /\ crypto = FormatPass
  /\ log = <<>>
  /\ disk = EmptyDevice
  /\ mounted = FALSE
  /\ sb = NoSuperBlock
  /\ bitmap = BitmapNew(0)
  /\ inodes = <<>>
  /\ reply = [op |-> "none", arg |-> <<>>, res |-> "ok", ino |-> 0]
  /\ calls = 0

CryptoFrame == UNCHANGED <<disk, mounted, sb, bitmap, inodes, calls>>

Encrypted(password, data, buf) ==
  /\ crypto' = password
  /\ log' = buf
  /\ reply' = [op |-> "encrypt", arg |-> <<password, data>>, res |-> "ok", ino |-> 0]
  /\ CryptoFrame

Encrypt ==
  ~mounted /\ \E password \in Passphrases, nonce \in Nonces, data \in Plaintexts :
    Encrypted(password, data, encrypt(password, nonce, data))

\* the reply carries the plaintext in ino
Decrypted(password, h, r) ==
  /\ reply' = [op |-> "decrypt", arg |-> <<password, h.how, h.k>>, res |-> r.err,
               ino |-> r.data]
  /\ UNCHANGED <<crypto, log>>
  /\ CryptoFrame

Decrypt ==
  ~mounted /\ \E password \in Passphrases, h \in Handed(log) :
    Decrypted(password, h, decrypt(password, h.data))

CryptoNext == Encrypt \/ Decrypt

CryptoSpec == CryptoInit /\ [][CryptoNext]_vars

---------------------------------------------------------------------------
\* fs.rs: the handlers that only answer, as functions of the state:
\* [st, res, ino], ino holding the number the reply carries

\* getattr: the reply carries the attributes, here the size
getattr(st, ino) ==
  IF ino \in DOMAIN st.inodes THEN Res(st, "ok", st.inodes[ino].size)
  ELSE Res(st, "ENOENT", 0)

\* the entries readdir hands to the reply after ".", ".." and those of d
ReaddirCount(d, offset) ==
  Max(2 + (IF d.err = "ok" THEN Len(d.entries) ELSE 0) - offset, 0)

\* readdir: the reply carries the entries from offset on, here their number
readdir(st, ino, offset) ==
  IF ino # ROOT_INO THEN Res(st, "ENOENT", 0)
  ELSE Res(st, "ok", ReaddirCount(read_dir_entries(st, ino), offset))

\* an open that honours O_TRUNC by emptying the file
open_truncating(st, ino) ==
  IF ino \notin DOMAIN st.inodes THEN Res(st, "ENOENT", 0)
  ELSE IF st.inodes[ino].file_type = "Directory" THEN Res(st, "EISDIR", 0)
  ELSE Res(PutInode(st, ino, [st.inodes[ino] EXCEPT !.size = 0]), "ok", 0)

\* open: the flags are not used
open(st, ino) ==
  IF ino \notin DOMAIN st.inodes THEN Res(st, "ENOENT", 0)
  ELSE IF st.inodes[ino].file_type = "Directory" THEN Res(st, "EISDIR", 0)
  ELSE Res(st, "ok", 0)

opendir(st, ino) ==
  IF ino \notin DOMAIN st.inodes THEN Res(st, "ENOENT", 0)
  ELSE IF st.inodes[ino].file_type = "Directory" THEN Res(st, "ok", 0)
  ELSE Res(st, "ENOTDIR", 0)

\* statfs: the reply carries the number of clear bits below total_blocks
statfs(st) ==
  Res(st, "ok",
      Cardinality({i \in 0 .. st.sb.total_blocks - 1 : ~BitmapGet(st.bitmap, i)}))

\* access: the mask is not used
access(st, ino) ==
  IF ino \in DOMAIN st.inodes THEN Res(st, "ok", 0) ELSE Res(st, "ENOENT", 0)

\* fsync: every write has reached the medium when its call returns
fsync(st, ino) ==
  IF ino \in DOMAIN st.inodes THEN Res(st, "ok", 0) ELSE Res(st, "ENOENT", 0)

\* lookup and read leave the state; the reply carries the inode index, and
\* for read the number of bytes
LookupReply(st, l) == Res(st, l.res, l.ino)

BytesReply(st, r) == Res(st, r.res, Len(r.data))

\* inode numbers the kernel may pass: cached ones and one that is not
AskedInodes == 1 .. MaxInodeIdx + 1

QueryCalls ==
  {Call("lookup", <<ROOT_INO, n>>) : n \in Names}
  \cup {Call(op, <<i>>) :
          op \in {"getattr", "open", "opendir", "access", "fsync"}, i \in AskedInodes}
  \cup {Call("readdir", <<i, off>>) : i \in {ROOT_INO, ROOT_INO + 1}, off \in {0, 1, 3}}
  \cup {Call("read", <<i, off, sz>>) : i \in AskedInodes, off \in {0, 1}, sz \in {1, MaxLen}}
  \cup {Call("statfs", <<ROOT_INO>>)}

QueryOps == {c.op : c \in QueryCalls}

\* the handler a call that only answers runs
Ask(st, c) ==
  CASE c.op = "lookup" -> LookupReply(st, lookup(st, c.arg[1], c.arg[2]))
    [] c.op = "getattr" -> getattr(st, c.arg[1])
    [] c.op = "readdir" -> readdir(st, c.arg[1], c.arg[2])
    [] c.op = "open" -> open(st, c.arg[1])
    [] c.op = "opendir" -> opendir(st, c.arg[1])
    [] c.op = "read" -> BytesReply(st, read(st, c.arg[1], c.arg[2], c.arg[3]))
    [] c.op = "statfs" -> statfs(st)
    [] c.op = "access" -> access(st, c.arg[1])
    [] c.op = "fsync" -> fsync(st, c.arg[1])

Query == Serving /\ \E c \in QueryCalls : Replied(c, Ask(St, c))

QueryNext ==
  \/ Mount
  \/ Create
  \/ Mkdir
  \/ Write
  \/ Unlink
  \/ Query

QuerySpec == Init /\ [][QueryNext]_vars

---------------------------------------------------------------------------
\* Properties

\* the last call was a write that replied Ok
WroteOk == mounted /\ reply.op = "write" /\ reply.res = "ok"

\* the payload of the write call the reply answers
Written == Payload(reply.arg[3], reply.arg[4])

\* C1: after write(ino, 0, D) returned success, read(ino, 0, |D|) returns
\* exactly D, whatever the file held before (shorter, longer or nothing).
C1_WriteReadRoundTrip ==
  (WroteOk /\ reply.arg[2] = 0) =>
    read(St, reply.arg[1], 0, reply.arg[4]) = [res |-> "ok", data |-> Written]

\* a one-byte write at offset 0 onto a file that was longer: its second slot
\* still holds the earlier block
C1_Witness ==
  /\ WroteOk
  /\ reply.arg[2] = 0
  /\ reply.arg[4] = 1
  /\ inodes[reply.arg[1]].direct_blocks[2] # 0

\* C2: after every completed call, failed ones included, every non-zero
\* direct block of every cached inode has its bit set in the in-memory bitmap
\* and is below total_blocks.
C2_BlocksAllocatedInRange ==
  mounted =>
    \A i \in DOMAIN inodes : \A b \in BlocksOf(inodes[i]) :
      BitmapGet(bitmap, b) /\ b < sb.total_blocks

\* a write that failed with ENOSPC on a file that holds blocks
C2_Witness ==
  /\ mounted
  /\ reply.op = "write"
  /\ reply.res = "ENOSPC"
  /\ BlocksOf(inodes[reply.arg[1]]) # {}

\* C3: no non-zero block id is in the direct-block lists of two cached inodes,
\* nor twice in the list of one.
C3_NoSharedBlock ==
  mounted =>
    /\ \A i, j \in DOMAIN inodes :
         i # j => BlocksOf(inodes[i]) \cap BlocksOf(inodes[j]) = {}
    /\ \A i \in DOMAIN inodes : \A p, q \in 1 .. DIRECT_POINTERS :
         (p # q /\ inodes[i].direct_blocks[p] # 0) =>
           inodes[i].direct_blocks[p] # inodes[i].direct_blocks[q]

\* the root holds two blocks and a file one, after a successful write
C3_Witness ==
  /\ WroteOk
  /\ Cardinality(BlocksOf(inodes[ROOT_INO])) = 2
  /\ BlocksOf(inodes[reply.arg[1]]) # {}

\* the file system a mount of the medium as it is now would serve
Remount(m) ==
  [disk |-> disk, crypto |-> FormatPass, sb |-> m.sb, bitmap |-> m.bitmap,
   inodes |-> m.inodes, log |-> <<>>]

Remounted == Remount(try_mount(disk, FormatPass))

\* what read gives for the file a lookup reply names
ReadFound(st, l) == read(st, l.ino, 0, MaxLen)

\* C4: every file that lookup finds during a mount is found by lookup after
\* an unmount and a new mount of the same medium, and read returns for it
\* what it returned before the unmount.
C4_FilesSurviveRemount ==
  mounted =>
    \A n \in Names :
      lookup(St, ROOT_INO, n).res = "ok" =>
        /\ lookup(Remounted, ROOT_INO, n).res = "ok"
        /\ ReadFound(Remounted, lookup(Remounted, ROOT_INO, n)) =
             ReadFound(St, lookup(St, ROOT_INO, n))

\* C5: a crash between two medium writes of a call leaves no persisted live
\* inode that references a block whose persisted bitmap bit is clear.
C5_CrashLeavesNoDanglingBlock ==
  reply.op = "crash" => fsck(disk, FormatPass).corruption = {}

\* a medium write to a data block (not the superblock, bitmap or inode table)
IsDataWrite(id) == id \notin {0, sb.bitmap_start, sb.inode_table_start}

\* C6 as stated: no write of the bitmap block precedes a write of a data
\* block within one call.
C6_NoBitmapBeforeData ==
  \A i, j \in 1 .. Len(log) :
    (i < j /\ log[i] = sb.bitmap_start) => ~IsDataWrite(log[j])

\* C6 as the code has it: in a call that writes to the medium and succeeds,
\* every data-block write is followed by a write of the bitmap block, and the
\* last medium write of the call is the inode table.
C6_DataThenBitmapThenInode ==
  (mounted /\ reply.res = "ok" /\ log # <<>>) =>
    /\ log[Len(log)] = sb.inode_table_start
    /\ \A i \in 1 .. Len(log) :
         IsDataWrite(log[i]) =>
           \E j \in i + 1 .. Len(log) - 1 : log[j] = sb.bitmap_start

\* a successful write that allocated: the bitmap went out before the data
C6_Witness ==
  /\ WroteOk
  /\ Len(log) >= 4
  /\ log[1] = sb.bitmap_start
  /\ IsDataWrite(log[2])

\* C7: on a medium produced by the formatter and any sequence of calls,
\* after a clean unmount, fsck opens the volume and counts no error:
\* every block of its calculated-used set has its bit set in the stored bitmap.
C7_FsckCleanAfterUnmount ==
  ~mounted =>
    /\ fsck(disk, FormatPass).opened
    /\ fsck(disk, FormatPass).corruption = {}

\* unmounted, with a persisted live inode other than the root holding a block
C7_Witness ==
  /\ reply.op = "unmount"
  /\ \E q \in FsckLive(disk[2].list) :
       q - 1 # ROOT_INO /\ BlocksOf(disk[2].list[q]) # {}

\* the step is an unlink, rmdir or rename that names n
Removes(n) ==
  \/ reply'.op \in {"unlink", "rmdir"} /\ reply'.arg[2] = n
  \/ reply'.op = "rename" /\ (reply'.arg[2] = n \/ reply'.arg[4] = n)

\* lookup finds n as a regular file
FindsFile(st, n) ==
  /\ lookup(st, ROOT_INO, n).res = "ok"
  /\ st.inodes[lookup(st, ROOT_INO, n).ino].file_type = "File"

CreatedNameStep(n) ==
  /\ (reply'.op = "create" /\ reply'.res = "ok" /\ reply'.arg[2] = n
      /\ calls' = calls + 1) =>
       lookup(St', ROOT_INO, n) = [res |-> "ok", ino |-> reply'.ino]
  /\ (mounted /\ mounted' /\ FindsFile(St, n) /\ ~Removes(n)) =>
       lookup(St', ROOT_INO, n) = lookup(St, ROOT_INO, n)

\* C8: after a successful create(1, name, mode), lookup(1, name) succeeds and
\* returns the inode index create returned, and goes on doing so until the
\* name is unlinked, removed or renamed.
C8_CreatedNameStaysFound == [][\A n \in Names : CreatedNameStep(n)]_vars

RemovedStep ==
  (reply'.op \in {"unlink", "rmdir"} /\ reply'.res = "ok" /\ calls' = calls + 1) =>
    /\ lookup(St', ROOT_INO, reply'.arg[2]).res = "ENOENT"
    /\ reply'.ino \notin DOMAIN inodes'
    /\ reply'.ino \in DOMAIN inodes =>
         \A b \in BlocksOf(inodes[reply'.ino]) : ~BitmapGet(bitmap', b)

\* C9: after a successful unlink or rmdir of a name, lookup of the name
\* answers "no such entry", the inode is not in the cache, and every block
\* that was in its direct-block list before the call has its bit clear.
C9_RemovedIsGone == [][RemovedStep]_vars

\* a successful unlink that freed a block: a data block whose bit is clear
C9_Witness ==
  /\ mounted
  /\ reply.op = "unlink"
  /\ reply.res = "ok"
  /\ \E b \in DOMAIN disk : disk[b].kind = "data" /\ ~BitmapGet(bitmap, b)

\* C10: write replaces the whole file for every offset: after a successful
\* call the inode's size is |data| and the file's contents are data.
C10_WriteReplacesWholeFile ==
  WroteOk =>
    /\ inodes[reply.arg[1]].size = reply.arg[4]
    /\ read(St, reply.arg[1], 0, MaxLen) = [res |-> "ok", data |-> Written]

\* a successful write at offset 1 onto a file that held more than it does now
C10_Witness ==
  /\ WroteOk
  /\ reply.arg[2] = 1
  /\ reply.arg[4] = 1
  /\ inodes[reply.arg[1]].direct_blocks[2] # 0

\* the step is a mount attempt
MountStep == reply'.op = "mount" /\ calls' = calls + 1

FreshMountStep ==
  /\ (reply.op = "mkfs" /\ reply.res = "exit0" /\ MountStep) =>
       /\ reply'.res = "ok" <=> reply'.arg[1] = reply.arg[2]
       /\ reply'.res = "ok" => (mounted' /\ ROOT_INO \in DOMAIN inodes')
       /\ reply'.res # "ok" => ~mounted'
  /\ (disk = EmptyDevice /\ MountStep) => (reply'.res # "ok" /\ ~mounted')

\* C11: a mount right after a successful format succeeds exactly when it is
\* given the passphrase of the format, and then the root inode 1 is in the
\* cache; a mount of an empty directory fails.
C11_FreshVolumeMounts == [][FreshMountStep]_vars

\* mounted right after a format to BigVolume blocks, the root in the cache
C11_Witness ==
  /\ mounted
  /\ reply.op = "mount"
  /\ sb.total_blocks = BigVolume
  /\ ROOT_INO \in DOMAIN inodes

\* the superblock on the medium is sealed, under another passphrase than pass
WrongPassphrase(pass) == disk[0].kind = "sb" /\ disk[0].key # pass

WrongPassphraseStep ==
  (reply'.op \in {"mount", "fsck"} /\ calls' = calls + 1
   /\ WrongPassphrase(reply'.arg[1])) =>
    /\ reply'.res \in {"fail", "exit1"}
    /\ disk' = disk

\* C12: with a wrong passphrase the mount tool and fsck both end with a
\* non-zero exit status and have written no block of the medium.
C12_WrongPassphraseFails == [][WrongPassphraseStep]_vars

\* C13: no file system is mounted from a superblock whose magic is not
\* QRFS_MAGIC: such a mount aborts.
C13_MountChecksMagic == mounted => sb.magic = QRFS_MAGIC

\* the bitmap on the medium has a bit set in [n, total_blocks)
ShrinkBlocked(device, n) ==
  /\ device[0].kind = "sb"
  /\ DeviceBlock(device, device[0].sb.bitmap_start).kind = "bitmap"
  /\ n < device[0].sb.total_blocks
  /\ \E i \in n .. device[0].sb.total_blocks - 1 :
       BitmapGet(DeviceBlock(device, device[0].sb.bitmap_start).bitmap, i)

RefusedShrinkStep ==
  (reply'.op = "resize" /\ calls' = calls + 1 /\ ShrinkBlocked(disk, reply'.arg[1])) =>
    /\ disk' = disk
    /\ log' = <<>>

\* C14: a resize to fewer blocks than total_blocks, run while a bit of the
\* bitmap in [N', total_blocks) is set, leaves the medium as it was: no block
\* file is removed and neither the bitmap block nor block 0 is written.
C14_BlockedShrinkRefused == [][RefusedShrinkStep]_vars

\* resize was given the passphrase of the volume and a size below the block
\* of a file, and returned
C14_Witness ==
  /\ reply.op = "resize"
  /\ reply.res = "exit0"
  /\ ShrinkBlocked(disk, reply.arg[1])
  /\ reply.arg[1] > MkfsDataStart(TOTAL_BLOCKS)

\* the volume on the medium opens under pass
Volume(device, pass) ==
  /\ Opens(pass, DeviceBlock(device, 0), "sb")
  /\ device[0].sb.magic = QRFS_MAGIC
  /\ Opens(pass, DeviceBlock(device, device[0].sb.bitmap_start), "bitmap")
  /\ Opens(pass, DeviceBlock(device, device[0].sb.inode_table_start), "inodes")

\* what the medium holds for one live inode: its direct-block list, the
\* files of those blocks and their bitmap bits
InodeLayout(device, inode, bm) ==
  [direct_blocks |-> inode.direct_blocks,
   files |-> [b \in BlocksOf(inode) |-> DeviceBlock(device, b)],
   bits |-> {b \in BlocksOf(inode) : BitmapGet(bm, b)}]

LiveLayoutOf(device, list, bm) ==
  [q \in FsckLive(list) |-> InodeLayout(device, list[q], bm)]

LiveLayout(device) ==
  LiveLayoutOf(device,
               DeviceBlock(device, device[0].sb.inode_table_start).list,
               DeviceBlock(device, device[0].sb.bitmap_start).bitmap)

\* the shrink left a; b is what the resize back to n leaves
ShrinkGrowKeeps(device, a, b) ==
  \/ a.disk = device /\ a.log = <<>>
  \/ /\ a.exit = 0
     /\ b.exit = 0
     /\ LiveLayout(b.disk) = LiveLayout(device)

ShrinkThenGrow(device, pass, m, n) ==
  ShrinkGrowKeeps(device, resize(device, pass, m),
                  resize(resize(device, pass, m).disk, pass, n))

\* C15: on a volume of N blocks, a resize to N' < N followed by a resize
\* back to N either refuses the shrink and leaves the medium as it was, or
\* both succeed and every live inode has the direct-block list, the block
\* files and the bitmap bits it had before.
C15_ShrinkGrowKeepsLiveBlocks ==
  ~mounted =>
    \A pass \in Passphrases, m \in ResizeSizes :
      (Volume(disk, pass) /\ m < disk[0].sb.total_blocks) =>
        ShrinkThenGrow(disk, pass, m, disk[0].sb.total_blocks)

\* the state after a shrink that succeeded on a volume where a file holds
\* a block, from which the resize back succeeds
C15_Witness ==
  /\ reply.op = "resize"
  /\ reply.res = "exit0"
  /\ log = <<1, 0>>
  /\ disk[0].sb.total_blocks = TOTAL_BLOCKS - 1
  /\ \E q \in FsckLive(disk[disk[0].sb.inode_table_start].list) :
       q # ROOT_INO + 1
       /\ BlocksOf(disk[disk[0].sb.inode_table_start].list[q]) # {}
  /\ resize(disk, reply.arg[2], TOTAL_BLOCKS).exit = 0


\* the clear indices of [0, size)
ClearIndices(bm) == {i \in 0 .. bm.size - 1 : i \notin bm.bits}

AllocateStep ==
  reply'.op = "allocate" =>
    IF ClearIndices(bitmap) = {}
    THEN reply'.ino = None /\ bitmap' = bitmap
    ELSE /\ reply'.ino \in ClearIndices(bitmap)
         /\ \A i \in ClearIndices(bitmap) : reply'.ino <= i
         /\ bitmap'.bits = bitmap.bits \cup {reply'.ino}
         /\ bitmap'.size = bitmap.size

\* C16: allocate returns the lowest clear index of [0, size) and sets that
\* bit and no other, whether the bits below it were set by allocate or by
\* set; when no bit is clear it returns None and leaves the bitmap as it was.
C16_AllocateLowestClear == [][AllocateStep]_vars

\* allocate has just returned an index above a set bit and below another
C16_Witness ==
  /\ reply.op = "allocate"
  /\ reply.ino > 0
  /\ \E i \in bitmap.bits : i > reply.ino
  /\ \E i \in bitmap.bits : i < reply.ino

\* the layout of a medium of n blocks: the superblock, the bitmap, the inode
\* region [2, first_data_block) and the root directory's block are in use
FormatLayout(device, n, first_data_block) ==
  /\ first_data_block = 2 + Max(1, n \div 8)
  /\ first_data_block < n
  /\ device[1].bitmap.size = n
  /\ device[1].bitmap.bits = 0 .. first_data_block
  /\ device[2].list[ROOT_INO + 1].file_type = "Directory"
  /\ device[2].list[ROOT_INO + 1].mode = 7 * 64 + 5 * 8 + 5
  /\ device[2].list[ROOT_INO + 1].direct_blocks[1] = first_data_block

\* C17: right after a format to N >= 5 blocks the bitmap has exactly the
\* bits 0 .. first_data_block set (superblock, bitmap, inode region
\* [2, 2 + max(1, N / 8)), root data block), and inode 1 is a directory of
\* mode 0o755 whose first direct block is the root data block, below N.
C17_FormatLayout ==
  (reply.op = "mkfs" /\ reply.res = "exit0") =>
    /\ reply.arg[1] >= MIN_BLOCKS
    /\ FormatLayout(disk, reply.arg[1], disk[0].sb.inode_table_start
                                        + MkfsInodeBlocks(reply.arg[1]))

\* right after a format to BigVolume blocks, whose inode region has two blocks
C17_Witness ==
  /\ reply.op = "mkfs"
  /\ reply.res = "exit0"
  /\ reply.arg[1] = BigVolume
  /\ disk[1].bitmap.bits = 0 .. 4

\* inode i is live in the cache: held with a mode other than 0
LiveInMemory(map, i) == i \in DOMAIN map /\ map[i].mode # 0

\* slot i of the inode table on the medium has a mode other than 0
LivePersisted(device, i) ==
  /\ DeviceBlock(device, 2).kind = "inodes"
  /\ i + 1 \in FsckLive(device[2].list)

\* live before the step, free after it
Dies(i) ==
  \/ mounted /\ mounted' /\ LiveInMemory(inodes, i) /\ ~LiveInMemory(inodes', i)
  \/ LivePersisted(disk, i) /\ ~LivePersisted(disk', i)

\* free before the step, live after it
IsBorn(i) ==
  \/ mounted /\ mounted' /\ ~LiveInMemory(inodes, i) /\ LiveInMemory(inodes', i)
  \/ ~LivePersisted(disk, i) /\ LivePersisted(disk', i)

LivenessStep ==
  /\ \A i \in 0 .. MaxInodeIdx :
       /\ Dies(i) => reply'.op \in {"unlink", "rmdir"}
       /\ IsBorn(i) => reply'.op \in {"create", "mkdir"}
  /\ mounted' => LiveInMemory(inodes', ROOT_INO)

\* C18: an inode goes from live to free (mode 0, in the cache or in the
\* persisted table) only in an unlink or rmdir and from free to live only in
\* a create or mkdir; write, setattr and rename leave the liveness of every
\* inode as it was; inode 1 is live as long as the volume is mounted.
C18_LivenessOnlyByCreateAndRemove == [][LivenessStep]_vars

\* the entries have pairwise distinct names, none of them empty
DistinctNames(entries) ==
  /\ \A i, j \in 1 .. Len(entries) : entries[i].name = entries[j].name => i = j
  /\ \A i \in 1 .. Len(entries) : entries[i].name # EmptyName

RootEntries(d) == d.err = "ok" => DistinctNames(d.entries)

\* C19: whatever calls were served, the names of the entries of the root
\* directory are pairwise distinct and none of them is empty.
C19_RootNamesDistinct == mounted => RootEntries(read_dir_entries(St, ROOT_INO))

\* a rename of one entry onto the name of the other has just been answered,
\* and the root directory holds both entries
C19_Witness ==
  /\ mounted
  /\ reply.op = "rename"
  /\ reply.arg[2] # reply.arg[4]
  /\ Len(read_dir_entries(St, ROOT_INO).entries) = 2
  /\ HasName(read_dir_entries(St, ROOT_INO).entries, reply.arg[2])
  /\ HasName(read_dir_entries(St, ROOT_INO).entries, reply.arg[4])

\* the call just answered named a parent, or a new parent, other than 1
NamedOtherParent(r) ==
  /\ r.op \in {"lookup", "create", "mkdir", "unlink", "rmdir", "rename"}
  /\ r.arg[1] # ROOT_INO \/ (r.op = "rename" /\ r.arg[3] # ROOT_INO)

OtherParentStep ==
  (calls' = calls + 1 /\ NamedOtherParent(reply')) =>
    /\ reply'.res = "ENOENT"
    /\ inodes' = inodes
    /\ bitmap' = bitmap
    /\ disk' = disk
    /\ log' = <<>>

\* C20: lookup, create, mkdir, unlink, rmdir and rename, called with a
\* parent (for rename: a parent or a new parent) other than 1, answer "no
\* such entry" and leave the cache, the bitmap and the medium as they were.
C20_OnlyRootIsAParent == [][OtherParentStep]_vars

\* a create inside a directory of the root has just been answered
C20_Witness ==
  /\ reply.op = "create"
  /\ reply.arg[1] \in DOMAIN inodes
  /\ reply.arg[1] # ROOT_INO
  /\ inodes[reply.arg[1]].file_type = "Directory"

\* C21 as stated: on a volume just formatted to 20 blocks, the write of
\* 8192 bytes to a new file fails with "no space".
C21_EightKiBNoSpace ==
  (reply.op = "write" /\ reply.arg = <<20, 8192>>) => reply.res = "ENOSPC"

\* the chunks a payload of len bytes is cut into
ChunksOf(len) == (len + CHUNK_SIZE_900 - 1) \div CHUNK_SIZE_900

\* C21, amended: the first write to a new file of a fresh volume fails with
\* "no space" exactly when the payload needs more chunks than there are
\* direct slots or than the bitmap has clear bits; 8192 bytes on 20 blocks
\* need 10 of 12 slots and 10 of 15 free blocks, and the write succeeds.
C21_NoSpaceBeyondSlotsOrBlocks ==
  reply.op = "write" =>
    /\ reply.res = "ENOSPC" <=>
         \/ ChunksOf(reply.arg[2]) > DIRECT_POINTERS_12
         \/ ChunksOf(reply.arg[2]) > reply.arg[1] - (2 + Max(1, reply.arg[1] \div 8)) - 1
    /\ reply.res = "ok" => reply.ino = ChunksOf(reply.arg[2])

\* the 8192 bytes were written to the volume of 20 blocks, into ten blocks
C21_Witness ==
  /\ reply.op = "write"
  /\ reply.arg = <<20, 8192>>
  /\ reply.res = "ok"
  /\ reply.ino = 10

\* the id has a file: it was written and not trimmed since
HasFile(b) == log[b].file = "written"

C23_AbsentReadsZero ==
  \A b \in PngIds :
    ~HasFile(b) =>
      /\ read_block(disk, b).err = "ok"
      /\ Len(read_block(disk, b).data) = BLOCK_SIZE
      /\ \A i \in 1 .. BLOCK_SIZE : read_block(disk, b).data[i] = 0

\* an id whose file trim removed has just been read
C23_Witness ==
  /\ reply.op = "read_block"
  /\ log[reply.arg[1]].file = "trimmed"
  /\ reply.res = "ok"
  /\ reply.arg[2] = ZeroBytes

\* C24: decrypt returns DecryptionError, and no plaintext, for a ciphertext
\* made under another passphrase with the same salt, for a ciphertext with
\* one byte changed, and for an input shorter than the 12-byte nonce.
C24_DecryptRejects ==
  (reply.op = "decrypt"
   /\ (reply.arg[1] # crypto \/ reply.arg[2] \in {"changed", "cut"})) =>
    /\ reply.res = "DecryptionError"
    /\ reply.ino = <<>>

\* a byte of the tag of a two-byte ciphertext was changed and decrypt, under
\* the passphrase of the encryption, has answered
C24_Witness ==
  /\ reply.op = "decrypt"
  /\ reply.arg[1] = crypto
  /\ reply.arg[2] = "changed"
  /\ reply.arg[3] > NONCE_LEN + 2
  /\ Len(log) = NONCE_LEN + 2 + TAG_LEN
  /\ decrypt(crypto, log).data = <<7, 255>>

\* the slots of the written inode that lie behind the chunks of the payload
SlotsBehind(len) ==
  {p \in 1 .. DIRECT_POINTERS : p - 1 >= (len + CHUNK_SIZE - 1) \div CHUNK_SIZE}

TrailingSlotsStep ==
  (mounted /\ reply'.op = "write" /\ reply'.res = "ok" /\ calls' = calls + 1) =>
    \A p \in SlotsBehind(reply'.arg[4]) :
      /\ inodes'[reply'.arg[1]].direct_blocks[p] = 0
      /\ inodes[reply'.arg[1]].direct_blocks[p] # 0 =>
           ~BitmapGet(bitmap', inodes[reply'.arg[1]].direct_blocks[p])

\* C25: after a successful write of a payload of c chunks, every slot of
\* direct_blocks with index >= c is 0, and every block such a slot held
\* before the write has its bitmap bit clear.
C25_TrailingSlotsFreed == [][TrailingSlotsStep]_vars

\* the inode table as it is on the medium
PersistedTable == DeviceBlock(disk, sb.inode_table_start).list

\* C26: the live inodes are never more than the persisted inode table has
\* slots and each of them has a slot in it, create and mkdir failing when no
\* slot is free.
C26_LiveInodesHaveSlots ==
  mounted =>
    /\ Cardinality(DOMAIN inodes) <= Len(PersistedTable)
    /\ \A i \in DOMAIN inodes : i + 1 <= Len(PersistedTable)

\* what read_inode_data gives for inode ino in the file system st
Contents(st, ino) == read_inode_data(st, st.inodes[ino])

FailedWriteStep ==
  \A ino \in DOMAIN inodes :
    (/\ mounted
     /\ reply'.op = "write"
     /\ reply'.arg[1] = ino
     /\ reply'.res = "ENOSPC"
     /\ calls' = calls + 1) =>
      /\ inodes'[ino].size = inodes[ino].size
      /\ inodes'[ino].direct_blocks = inodes[ino].direct_blocks
      /\ Contents(St, ino)' = Contents(St, ino)

\* C27: after a write that fails with "no space" the inode's size, its
\* direct-block list and the contents read from it are what they were before.
C27_FailedWriteChangesNothing == [][FailedWriteStep]_vars

\* the root directory's entries
EntriesNow == read_dir_entries(St, ROOT_INO).entries

RenameStepOf(old, new) ==
  /\ mounted
  /\ read_dir_entries(St, ROOT_INO).err = "ok"
  /\ reply'.op = "rename"
  /\ reply'.arg = <<ROOT_INO, old, ROOT_INO, new>>
  /\ calls' = calls + 1

RenameStep ==
  \A old \in Names, new \in Names :
    RenameStepOf(old, new) =>
      /\ (HasName(EntriesNow, old) /\ ~HasName(EntriesNow, new)) =>
           /\ reply'.res = "ok"
           /\ Position(EntriesNow', new) = Position(EntriesNow, old)
           /\ lookup(St, ROOT_INO, new)' = lookup(St, ROOT_INO, old)
           /\ lookup(St, ROOT_INO, old)'.res = "ENOENT"
      /\ HasName(EntriesNow, new) =>
           /\ reply'.res # "ok"
           /\ EntriesNow' = EntriesNow
      /\ ~HasName(EntriesNow, old) => reply'.res = "ENOENT"

\* C28: a rename inside the root with old present and new absent changes only
\* the entry's name; with new present it fails and leaves the directory as it
\* was; with old absent it fails with "no such entry".
C28_RenameInPlace == [][RenameStep]_vars

\* what the check that has just run found
FsckReport == fsck(disk, reply.arg[1])

FsckChecked == reply.op = "fsck" /\ FsckReport.opened

\* the superblock, the bitmap and the inode table stored on the medium
StoredSuper == DeviceBlock(disk, 0).sb
StoredBitmap == DeviceBlock(disk, StoredSuper.bitmap_start).bitmap
StoredInodes == DeviceBlock(disk, StoredSuper.inode_table_start).list

\* the non-zero direct blocks of the stored inodes with a non-zero mode
StoredLiveBlocks ==
  {StoredInodes[q].direct_blocks[p] :
     q \in {k \in 1 .. Len(StoredInodes) : StoredInodes[k].mode # 0},
     p \in 1 .. DIRECT_POINTERS} \ {0}

CalculatedUsed ==
  {0, StoredSuper.bitmap_start, StoredSuper.inode_table_start}
  \cup {b \in StoredLiveBlocks : b < StoredSuper.total_blocks}

\* the block ids a report can be about
ReportIds == 0 .. 2 * TOTAL_BLOCKS

\* C29: the check reports corruption for exactly the blocks of the
\* calculated-used set whose stored bit is clear, an orphan for exactly the
\* blocks below total_blocks whose stored bit is set and that are not in the
\* set, and a live inode's direct block at or beyond total_blocks as out of
\* range, without taking it into the set.
C29_FsckReports ==
  FsckChecked =>
    /\ FsckReport.corruption \cup FsckReport.orphans \cup FsckReport.out_of_range
         \subseteq ReportIds
    /\ \A b \in ReportIds :
         /\ b \in FsckReport.corruption <=>
              (b \in CalculatedUsed /\ ~BitmapGet(StoredBitmap, b))
         /\ b \in FsckReport.orphans <=>
              /\ BitmapGet(StoredBitmap, b)
              /\ b < StoredSuper.total_blocks
              /\ b \notin CalculatedUsed
         /\ b \in FsckReport.out_of_range <=>
              (b \in StoredLiveBlocks /\ b >= StoredSuper.total_blocks)
         /\ b \in FsckReport.out_of_range =>
              b \notin FsckReport.corruption \cup FsckReport.orphans

C29_Witness ==
  /\ FsckChecked
  /\ FsckReport.out_of_range # {}
  /\ FsckReport.corruption # {}

FsckStep ==
  (reply'.op = "fsck" /\ calls' = calls + 1) => (disk' = disk /\ log' = <<>>)

\* C30: a run of the check writes nothing: the block files and their
\* contents after the run are those before it, whatever the volume and the
\* passphrase.
C30_FsckWritesNothing == [][FsckStep]_vars

C30_Witness ==
  /\ reply.op = "fsck"
  /\ reply.res = "exit0"
  /\ FsckReport.opened
  /\ FsckReport.orphans # {}

\* block 0 as the formatter left it
FormattedBlock0 == DeviceBlock(Mkfs(TOTAL_BLOCKS, FormatPass), 0)

SuperblockStep ==
  /\ DeviceBlock(disk', 0) = FormattedBlock0
  /\ \A k \in 1 .. Len(log') : log'[k] # 0
  /\ mounted' => sb' = FormattedBlock0.sb

\* C31: no call served by the bridge writes block 0 or changes the
\* superblock in memory: the superblock on the medium stays the formatter's,
\* total_blocks and free_blocks_count included.
C31_SuperblockNeverWritten == [][SuperblockStep]_vars

\* the stored free count no longer is the number of clear bits
C31_Witness ==
  /\ mounted
  /\ reply.op \in {"write", "unlink"}
  /\ reply.res = "ok"
  /\ sb.free_blocks_count # bitmap.size - Cardinality(bitmap.bits)
  /\ bitmap.bits # DeviceBlock(Mkfs(TOTAL_BLOCKS, FormatPass), sb.bitmap_start).bitmap.bits

QueryStep ==
  (mounted /\ reply'.op \in QueryOps /\ calls' = calls + 1) =>
    /\ inodes' = inodes
    /\ bitmap' = bitmap
    /\ disk' = disk
    /\ log' = <<>>

\* C32: lookup, getattr, readdir, open, opendir, read, statfs, access and
\* fsync leave the inode cache, the bitmap and every block of the medium as
\* they were, whether they reply ok or an error.
C32_QueriesChangeNothing == [][QueryStep]_vars

\* an open of a file that holds data
C32_Witness ==
  /\ mounted
  /\ reply.op = "open"
  /\ reply.res = "ok"
  /\ inodes[reply.arg[1]].size > 0

\* every entry names a cached inode and no two entries name the same one
EntriesNameInodes(entries, map) ==
  /\ \A i \in 1 .. Len(entries) : entries[i].inode_idx \in DOMAIN map
  /\ \A i, j \in 1 .. Len(entries) :
       entries[i].inode_idx = entries[j].inode_idx => i = j

\* C33: across unmounts and mounts and whatever creates, mkdirs, unlinks and
\* rmdirs were served, every entry of the root directory names an inode that
\* is in the cache, and no two entries name the same inode index.
C33_EntriesNameLiveInodes ==
  (mounted /\ read_dir_entries(St, ROOT_INO).err = "ok") =>
    EntriesNameInodes(EntriesNow, inodes)

FailedMakeStep ==
  (/\ mounted
   /\ reply'.op \in {"create", "mkdir"}
   /\ reply'.res # "ok"
   /\ calls' = calls + 1) =>
    /\ inodes' = inodes
    /\ DeviceBlock(disk', sb.inode_table_start) = DeviceBlock(disk, sb.inode_table_start)

\* C34: a create or mkdir that fails leaves no new inode, in the cache or in
\* the inode table on the medium.
C34_FailedCreateLeavesNothing == [][FailedMakeStep]_vars

NoSpaceBitmapStep ==
  (mounted /\ reply'.op = "write" /\ reply'.res = "ENOSPC" /\ calls' = calls + 1) =>
    /\ bitmap' = bitmap
    /\ DeviceBlock(disk', sb.bitmap_start) = DeviceBlock(disk, sb.bitmap_start)

\* C35: a write that fails with "no space" leaves the bitmap, in memory and
\* on the medium, as it was before the call.
C35_FailedWriteKeepsBitmap == [][NoSpaceBitmapStep]_vars

\* the formatter has just run to the end
FreshlyFormatted == reply.op = "mkfs" /\ reply.res = "exit0"

\* C36: on a volume straight out of the formatter the check opens the volume
\* and finds neither corruption nor orphan blocks.
C36_FreshVolumeIsClean ==
  FreshlyFormatted =>
    /\ fsck(disk, reply.arg[2]).opened
    /\ fsck(disk, reply.arg[2]).corruption = {}
    /\ fsck(disk, reply.arg[2]).orphans = {}

\* the superblock, the bitmap block and the blocks of the inode table
MetaBlocks(s) ==
  {0, s.bitmap_start} \cup (s.inode_table_start .. MkfsDataStart(s.total_blocks) - 1)

\* C37: while the volume is mounted the bits of block 0, of the bitmap block
\* and of the inode-table blocks are set, in memory and on the medium, and
\* no direct_blocks slot of a cached inode names one of these blocks: a slot
\* that holds a block is not 0 and not a metadata block.
C37_MetadataBitsStaySet ==
  mounted =>
    /\ \A m \in MetaBlocks(sb) :
         /\ BitmapGet(bitmap, m)
         /\ BitmapGet(DeviceBlock(disk, sb.bitmap_start).bitmap, m)
    /\ \A i \in DOMAIN inodes, p \in 1 .. DIRECT_POINTERS :
         inodes[i].direct_blocks[p] \notin MetaBlocks(sb) \ {0}

\* a write has just taken blocks from the bitmap
C37_Witness ==
  /\ mounted
  /\ reply.op = "write"
  /\ reply.res = "ok"
  /\ \A p \in 1 .. DIRECT_POINTERS : inodes[reply.arg[1]].direct_blocks[p] # 0

\* no zero slot is followed by a non-zero slot
PrefixSlots(inode) ==
  \A p, q \in 1 .. DIRECT_POINTERS :
    (p < q /\ inode.direct_blocks[p] = 0) => inode.direct_blocks[q] = 0

\* C38: the non-zero entries of the direct_blocks of every live inode, in the
\* cache and in the inode table on the medium, are a prefix of the list, so
\* read_inode_data, which stops at the first zero slot, skips no block.
C38_BlocksFormPrefix ==
  /\ mounted => \A i \in DOMAIN inodes : PrefixSlots(inodes[i])
  /\ DeviceBlock(disk, 2).kind = "inodes" =>
       \A q \in FsckLive(disk[2].list) : PrefixSlots(disk[2].list[q])

\* a write has left a file with blocks in its first slots and a free last slot
C38_Witness ==
  /\ mounted
  /\ reply.op = "write"
  /\ reply.res = "ok"
  /\ inodes[reply.arg[1]].direct_blocks[1] # 0
  /\ inodes[reply.arg[1]].direct_blocks[DIRECT_POINTERS] = 0

\* the number of non-zero slots of the inode
SlotsHeld(inode) == Cardinality({p \in 1 .. DIRECT_POINTERS : inode.direct_blocks[p] # 0})

\* C39: the size of every cached inode is at most the chunk size times the
\* number of its non-zero slots, and a read of the whole file returns exactly
\* size bytes, after a setattr with a new size as well.
C39_SizeWithinBlocks ==
  mounted =>
    \A i \in DOMAIN inodes :
      /\ inodes[i].size <= CHUNK_SIZE * SlotsHeld(inodes[i])
      /\ read(St, i, 0, inodes[i].size).res = "ok" =>
           Len(read(St, i, 0, inodes[i].size).data) = inodes[i].size

=============================================================================
